---- MODULE Spec2Model ----
(***************************************************************************)
(* A model of the todo backend: the Todo entity (models/Todo.ts), the      *)
(* SQLite-backed repository (repositories/TodoRepository.ts), the table    *)
(* constraints and trigger (database/migrations/001_create_todos_table.ts) *)
(* and the service layer (services/TodoService.ts).                        *)
(*                                                                         *)
(* Strings are sequences of one-character strings.  A JavaScript Date is a *)
(* number of ticks; a timestamp column holds a text that is either an      *)
(* ISO-8601 string (Date.toISOString) or SQLite's 'YYYY-MM-DD HH:MM:SS'    *)
(* (datetime('now')), modelled as a record [fmt, t].                       *)
(***************************************************************************)
EXTENDS Integers, Sequences, FiniteSets, TLC

VARIABLES
    todos,      \* the rows of table todos, in rowid (insertion) order
    now,        \* the clock, in ticks
    nextId,     \* the number of ids uuidv4() has handed out so far
    last,       \* the outcome of the last finished handler
    tx,         \* the open SQLite transaction of the connection, if any
    req         \* the read request that is suspended at an await, if any

vars == <<todos, now, nextId, last, tx, req>>

(***************************************************************************)
(* Bounds of the model                                                     *)
(***************************************************************************)
MaxIds == 2          \* ids handed out in one behaviour
MaxBatch == 2        \* longest bulk list that is enumerated element by element
MaxRows == 3         \* rows of a collection the query engine is run against
MaxPage == 4         \* largest page number asked for
MaxWrites == 1       \* bulk writes committed while one read is suspended
MaxTime == 2         \* latest reading of the clock, in ticks
MaxTotal == 40       \* most tasks that a completion rate is computed for
MaxLoads == 3        \* loadTodos requests that one mounted hook issues

(***************************************************************************)
(* Program constants                                                       *)
(***************************************************************************)
TitleMin == 3
TitleMax == 100
DescriptionMax == 500
TagsMax == 10
BulkMax == 100
LimitMax == 100
DefaultLimit == 50
DefaultPage == 1
TicksPerSecond == 2  \* datetime('now') has a resolution of one second, Date of 1 ms
MantissaBits == 53   \* significant bits of a Number (IEEE 754 binary64)
IntegerBits == 8     \* bits kept before the point of a quotient of two counts
FractionBits == 64   \* bits kept after the point: exact for a quotient >= 2^-10

\* An optional value (JavaScript undefined, SQL NULL) is the empty sequence and a
\* present value v the one-element sequence <<v>>.
None == <<>>
Some(v) == <<v>>
NULL == None         \* SQL NULL
UNDEF == None        \* JavaScript undefined
InvalidTime == -1
\* the id that is an empty string (ids are numbers in the model)
BlankId == 0    \* getTime() of an Invalid Date (NaN)

(***************************************************************************)
(* Strings                                                                 *)
(***************************************************************************)
Rep(c, n) == [i \in 1..n |-> c]

\* the lower-case form of a letter of the model's alphabet (ASCII, as LIKE folds it)
Lower(c) == IF c = "B" THEN "b" ELSE IF c = "A" THEN "a" ELSE c

IsSpace(c) == c = " "

RECURSIVE TrimLeft(_)
TrimLeft(s) ==
    IF s = <<>> THEN s
    ELSE IF IsSpace(Head(s)) THEN TrimLeft(Tail(s)) ELSE s

RECURSIVE TrimRight(_)
TrimRight(s) ==
    IF s = <<>> THEN s
    ELSE IF IsSpace(s[Len(s)]) THEN TrimRight(SubSeq(s, 1, Len(s) - 1)) ELSE s

\* String.prototype.trim
Trim(s) == TrimRight(TrimLeft(s))

\* the characters of the model's alphabet that /[a-zA-ZÀ-ÿ0-9 \-_'.,!?]/ accepts
TitleChars == {"a", "b", "c", "d", "B", "u", "y", "x", "1", " ", "-", "!", "é"}

\* /^[a-zA-ZÀ-ÿ0-9 \-_'.,!?]+$/.test(s)
TitleRegexTest(s) == Len(s) >= 1 /\ \A i \in 1..Len(s) : s[i] \in TitleChars

(***************************************************************************)
(* JSON text of a tags array (JSON.stringify / JSON.parse)                 *)
(***************************************************************************)
RECURSIVE JsonEscape(_)
JsonEscape(s) ==
    IF s = <<>> THEN <<>>
    ELSE (IF Head(s) \in {"\"", "\\"} THEN <<"\\", Head(s)>> ELSE <<Head(s)>>)
         \o JsonEscape(Tail(s))

JsonQuote(s) == <<"\"">> \o JsonEscape(s) \o <<"\"">>

RECURSIVE JsonItems(_)
JsonItems(list) ==
    IF list = <<>> THEN <<>>
    ELSE IF Len(list) = 1 THEN JsonQuote(Head(list))
    ELSE JsonQuote(Head(list)) \o <<",">> \o JsonItems(Tail(list))

\* JSON.stringify(tags) for an array of strings
JSONStringify(list) == <<"[">> \o JsonItems(list) \o <<"]">>

RECURSIVE JsonParseFrom(_, _, _, _, _)
JsonParseFrom(s, i, inStr, cur, acc) ==
    IF i > Len(s) THEN acc
    ELSE IF inStr
         THEN IF s[i] = "\\" /\ i < Len(s)
              THEN JsonParseFrom(s, i + 2, TRUE, Append(cur, s[i + 1]), acc)
              ELSE IF s[i] = "\""
                   THEN JsonParseFrom(s, i + 1, FALSE, <<>>, Append(acc, cur))
                   ELSE JsonParseFrom(s, i + 1, TRUE, Append(cur, s[i]), acc)
         ELSE IF s[i] = "\""
              THEN JsonParseFrom(s, i + 1, TRUE, <<>>, acc)
              ELSE JsonParseFrom(s, i + 1, FALSE, cur, acc)

\* JSON.parse(text) for the text of an array of strings
JSONParse(s) == JsonParseFrom(s, 1, FALSE, <<>>, <<>>)

(***************************************************************************)
(* Timestamps                                                              *)
(***************************************************************************)
\* Date.prototype.toISOString: 'YYYY-MM-DDTHH:MM:SS.sssZ'
ToISOString(d) == [fmt |-> "iso", t |-> d]

\* SQLite datetime('now'): 'YYYY-MM-DD HH:MM:SS', whole seconds, UTC
DatetimeNow(clock) == [fmt |-> "sql", t |-> (clock \div TicksPerSecond) * TicksPerSecond]

\* datetime(text): the time of a timestamp text in whole seconds
Datetime(text) == [fmt |-> "sql", t |-> (text.t \div TicksPerSecond) * TicksPerSecond]

\* new Date(text) of a stored timestamp (the server's time zone is UTC)
NewDate(text) == text.t

\* SQLite `x IS datetime(x)`: true only of a text already in datetime()'s own format
IsDatetimeText(text) == text.fmt = "sql"

(***************************************************************************)
(* models/Todo.ts                                                          *)
(***************************************************************************)
Priorities == {"low", "medium", "high"}

\* the private constructor: props.x || default
TodoConstructor(props, clock, freshId) ==
    [id          |-> IF props.id # UNDEF THEN props.id[1] ELSE freshId,
     title       |-> IF props.title # UNDEF /\ props.title[1] # <<>>
                     THEN props.title[1] ELSE <<>>,
     description |-> props.description,
     completed   |-> props.completed = Some(TRUE),
     priority    |-> IF props.priority # UNDEF THEN props.priority[1] ELSE "medium",
     dueDate     |-> props.dueDate,
     tags        |-> IF props.tags # UNDEF THEN props.tags[1] ELSE <<>>,
     createdAt   |-> IF props.createdAt # UNDEF THEN props.createdAt[1] ELSE clock,
     updatedAt   |-> IF props.updatedAt # UNDEF THEN props.updatedAt[1] ELSE clock,
     completedAt |-> props.completedAt]

\* Todo.create(dto): createdAt and updatedAt are two evaluations of new Date(), the
\* clock reading `first` and then `second`
TodoCreateAt(dto, first, second, freshId) ==
    TodoConstructor(
        [id          |-> UNDEF,
         title       |-> dto.title,
         description |-> dto.description,
         completed   |-> Some(FALSE),
         priority    |-> IF dto.priority # UNDEF THEN dto.priority ELSE Some("medium"),
         dueDate     |-> dto.dueDate,
         tags        |-> IF dto.tags # UNDEF THEN dto.tags ELSE Some(<<>>),
         createdAt   |-> Some(first),
         updatedAt   |-> Some(second),
         completedAt |-> UNDEF],
        second, freshId)

\* Todo.create(dto) when the clock does not move between its two readings
TodoCreate(dto, clock, freshId) == TodoCreateAt(dto, clock, clock, freshId)

\* Todo.fromDatabase(raw)
FromDatabase(raw) ==
    TodoConstructor(
        [id          |-> Some(raw.id),
         title       |-> Some(raw.title),
         description |-> IF raw.description # NULL /\ raw.description[1] # <<>>
                         THEN raw.description ELSE UNDEF,
         completed   |-> Some(raw.completed # 0),
         priority    |-> Some(raw.priority),
         dueDate     |-> IF raw.due_date # NULL THEN Some(NewDate(raw.due_date[1]))
                         ELSE UNDEF,
         tags        |-> IF raw.tags # <<>> THEN Some(JSONParse(raw.tags)) ELSE Some(<<>>),
         createdAt   |-> Some(NewDate(raw.created_at)),
         updatedAt   |-> Some(NewDate(raw.updated_at)),
         completedAt |-> IF raw.completed_at # NULL
                         THEN Some(NewDate(raw.completed_at[1])) ELSE UNDEF],
        0, 0)

\* Todo.toDatabase()
ToDatabase(todo) ==
    [id           |-> todo.id,
     title        |-> todo.title,
     description  |-> IF todo.description # UNDEF /\ todo.description[1] # <<>>
                      THEN todo.description ELSE NULL,
     completed    |-> IF todo.completed THEN 1 ELSE 0,
     priority     |-> todo.priority,
     due_date     |-> IF todo.dueDate # UNDEF THEN Some(ToISOString(todo.dueDate[1]))
                      ELSE NULL,
     tags         |-> JSONStringify(todo.tags),
     created_at   |-> ToISOString(todo.createdAt),
     updated_at   |-> ToISOString(todo.updatedAt),
     completed_at |-> IF todo.completedAt # UNDEF
                      THEN Some(ToISOString(todo.completedAt[1])) ELSE NULL]

\* Todo.toJSON()
ToJSON(todo) ==
    [id |-> todo.id, title |-> todo.title, description |-> todo.description,
     completed |-> todo.completed, priority |-> todo.priority, dueDate |-> todo.dueDate,
     tags |-> todo.tags, createdAt |-> todo.createdAt, updatedAt |-> todo.updatedAt,
     completedAt |-> todo.completedAt]

\* String.prototype.toLowerCase over the model's alphabet
ToLowerCase(str) == [i \in 1..Len(str) |-> Lower(str[i])]

\* Todo.isOverdue(), new Date() being clock
isOverdue(todo, clock) ==
    IF todo.dueDate = UNDEF THEN FALSE
    ELSE IF todo.completed THEN FALSE
    ELSE todo.dueDate[1] < clock

\* Todo.hasTag(tag)
hasTag(todo, tag) ==
    \E i \in 1..Len(todo.tags) : ToLowerCase(todo.tags[i]) = ToLowerCase(tag)

\* a complete() without its early return: it stamps the task again
complete_Restamps(todo, clock) ==
    [todo EXCEPT !.completed = TRUE, !.completedAt = Some(clock), !.updatedAt = clock]

\* Todo.complete()
complete(todo, clock) ==
    IF todo.completed THEN todo
    ELSE [todo EXCEPT !.completed = TRUE, !.completedAt = Some(clock),
                      !.updatedAt = clock]

\* Todo.uncomplete()
uncomplete(todo, clock) ==
    IF ~todo.completed THEN todo
    ELSE [todo EXCEPT !.completed = FALSE, !.completedAt = UNDEF, !.updatedAt = clock]

\* an update that replaced the task by its argument: a priority that is not supplied
\* falls back to the default
TodoUpdate_Replaces(todo, updates, clock) ==
    [todo EXCEPT
        !.title = IF updates.title # UNDEF THEN updates.title[1] ELSE @,
        !.priority = IF updates.priority # UNDEF THEN updates.priority[1] ELSE "medium",
        !.updatedAt = clock]

\* Todo.toggle()
toggle(todo, clock) ==
    [todo EXCEPT !.completed = ~todo.completed,
                 !.completedAt = IF ~todo.completed THEN Some(clock) ELSE UNDEF,
                 !.updatedAt = clock]

\* Todo.update(updates)
TodoUpdate(todo, updates, clock) ==
    LET f == [todo EXCEPT
                !.title = IF updates.title # UNDEF THEN updates.title[1] ELSE @,
                !.description = IF updates.description # UNDEF
                                THEN updates.description ELSE @,
                !.priority = IF updates.priority # UNDEF THEN updates.priority[1] ELSE @,
                !.dueDate = IF updates.dueDate # UNDEF THEN updates.dueDate ELSE @,
                !.tags = IF updates.tags # UNDEF THEN updates.tags[1] ELSE @]
        g == IF updates.completed # UNDEF /\ updates.completed[1] # f.completed
             THEN IF updates.completed[1] THEN complete(f, clock)
                  ELSE uncomplete(f, clock)
             ELSE f
    IN  [g EXCEPT !.updatedAt = clock]

(***************************************************************************)
(* database/migrations/001_create_todos_table.ts                           *)
(***************************************************************************)
\* the CHECK constraints of table todos
CheckConstraints(row) ==
    /\ Len(row.title) >= TitleMin /\ Len(row.title) <= TitleMax
    /\ (row.description = NULL \/ Len(row.description[1]) <= DescriptionMax)
    /\ row.completed \in {0, 1}
    /\ row.priority \in Priorities
    /\ (row.due_date = NULL \/ IsDatetimeText(row.due_date[1]))
    /\ (row.completed_at = NULL \/ IsDatetimeText(row.completed_at[1]))

RowIds(db) == {db[i].id : i \in 1..Len(db)}

\* id TEXT PRIMARY KEY
PrimaryKeyFree(db, id) == id \notin RowIds(db)

\* TRIGGER update_todos_updated_at, AFTER UPDATE FOR EACH ROW
UpdateTrigger(row, clock) == [row EXCEPT !.updated_at = DatetimeNow(clock)]

(***************************************************************************)
(* repositories/TodoRepository.ts                                          *)
(***************************************************************************)
\* one INSERT INTO todos; ioFails is a failure of the storage engine itself
InsertRow(db, row, ioFails) ==
    IF ioFails \/ ~CheckConstraints(row) \/ ~PrimaryKeyFree(db, row.id)
    THEN [ok |-> FALSE, db |-> db]
    ELSE [ok |-> TRUE, db |-> Append(db, row)]

RowIndex(db, id) == CHOOSE i \in 1..Len(db) : db[i].id = id

\* TodoRepository.create
RepoCreate(db, todo, ioFails) == InsertRow(db, ToDatabase(todo), ioFails)

\* TodoRepository.findById: the row, or none
RepoFindById(db, id) ==
    IF id \in RowIds(db) THEN Some(db[RowIndex(db, id)]) ELSE None

\* TodoRepository.update: result "null" (no such row), "ok" or "throw"
RepoUpdate(db, id, updates, clock) ==
    IF RepoFindById(db, id) = None
    THEN [result |-> "null", db |-> db]
    ELSE LET i == RowIndex(db, id)
             todo == TodoUpdate(FromDatabase(db[i]), updates, clock)
             data == ToDatabase(todo)
             row == [data EXCEPT !.id = db[i].id, !.created_at = db[i].created_at]
         IN  IF CheckConstraints(row)
             THEN [result |-> "ok", db |-> [db EXCEPT ![i] = UpdateTrigger(row, clock)]]
             ELSE [result |-> "throw", db |-> db]

RECURSIVE Without(_, _)
\* the rows of db that are not in the set ids, in order
Without(db, ids) ==
    IF db = <<>> THEN <<>>
    ELSE IF Head(db).id \in ids THEN Without(Tail(db), ids)
         ELSE <<Head(db)>> \o Without(Tail(db), ids)

\* TodoRepository.delete: DELETE FROM todos WHERE id = ?
RepoDelete(db, id) ==
    [deleted |-> id \in RowIds(db), db |-> Without(db, {id})]

SeqRange(list) == {list[i] : i \in 1..Len(list)}

\* a DELETE ... IN (...) whose changes counted the placeholders instead of the rows
DeleteIn_CountsListed(db, ids) ==
    [changes |-> Len(ids), db |-> Without(db, SeqRange(ids))]

\* DELETE FROM todos WHERE id IN (...)
DeleteIn(db, ids) ==
    [changes |-> Cardinality(RowIds(db) \cap SeqRange(ids)),
     db |-> Without(db, SeqRange(ids))]

\* TodoRepository.bulkComplete
RepoBulkComplete(db, ids, clock) ==
    LET hit(r) == r.id \in SeqRange(ids) /\ r.completed = 0
    IN  [changes |-> Cardinality({i \in 1..Len(db) : hit(db[i])}),
         db |-> [i \in 1..Len(db) |->
                   IF hit(db[i])
                   THEN UpdateTrigger([db[i] EXCEPT
                            !.completed = 1,
                            !.completed_at = Some(DatetimeNow(clock)),
                            !.updated_at = DatetimeNow(clock)], clock)
                   ELSE db[i]]]

\* bulkUncomplete without `completed_at = NULL`
RepoBulkUncomplete_KeepsCompletedAt(db, ids, clock) ==
    LET hit(r) == r.id \in SeqRange(ids) /\ r.completed = 1
    IN  [changes |-> Cardinality({i \in 1..Len(db) : hit(db[i])}),
         db |-> [i \in 1..Len(db) |->
                   IF hit(db[i])
                   THEN UpdateTrigger([db[i] EXCEPT
                            !.completed = 0,
                            !.updated_at = DatetimeNow(clock)], clock)
                   ELSE db[i]]]

\* TodoRepository.bulkUncomplete
RepoBulkUncomplete(db, ids, clock) ==
    LET hit(r) == r.id \in SeqRange(ids) /\ r.completed = 1
    IN  [changes |-> Cardinality({i \in 1..Len(db) : hit(db[i])}),
         db |-> [i \in 1..Len(db) |->
                   IF hit(db[i])
                   THEN UpdateTrigger([db[i] EXCEPT
                            !.completed = 0,
                            !.completed_at = NULL,
                            !.updated_at = DatetimeNow(clock)], clock)
                   ELSE db[i]]]

\* a DELETE FROM todos without its WHERE clause
RepoDeleteCompleted_NoWhere(db) ==
    [changes |-> Len(db), db |-> <<>>]

\* TodoRepository.deleteCompleted: DELETE FROM todos WHERE completed = 1
RepoDeleteCompleted(db) ==
    LET done == {db[i].id : i \in {j \in 1..Len(db) : db[j].completed = 1}}
    IN  [changes |-> Cardinality(done), db |-> Without(db, done)]

RECURSIVE InsertMany(_, _, _, _)
\* the loop of insertMany: stmt.run(todo.toDatabase()) for each todo, stopping at the
\* first statement that throws; failAt is the position at which the engine fails (0: none)
InsertMany(db, batch, k, failAt) ==
    IF k > Len(batch) THEN [ok |-> TRUE, db |-> db]
    ELSE LET r == InsertRow(db, ToDatabase(batch[k]), k = failAt)
         IN  IF r.ok THEN InsertMany(r.db, batch, k + 1, failAt)
             ELSE [ok |-> FALSE, db |-> r.db]

\* a transaction that keeps what fn wrote before it threw
Transaction_NoRollback(before, run) == run.db

\* db.transaction(fn)(): commit what fn did, or roll back to the state at BEGIN when
\* fn throws
Transaction(before, run) == IF run.ok THEN run.db ELSE before

\* TodoRepository.bulkCreate
RepoBulkCreate(db, batch, failAt) ==
    LET run == InsertMany(db, batch, 1, failAt)
    IN  [ok |-> run.ok, db |-> Transaction(db, run), partial |-> Len(run.db) - Len(db)]

\* DELETE FROM todos WHERE id IN (...), the engine failing before it removes the
\* failAt-th listed id (0: no failure)
DeleteStatement(db, ids, failAt) ==
    IF failAt = 0
    THEN [ok |-> TRUE, changes |-> DeleteIn(db, ids).changes, db |-> DeleteIn(db, ids).db]
    ELSE [ok |-> FALSE, changes |-> 0,
          db |-> DeleteIn(db, SubSeq(ids, 1, failAt - 1)).db]

\* TodoRepository.bulkDelete
RepoBulkDelete(db, ids, failAt) ==
    IF Len(ids) = 0 THEN [ok |-> TRUE, changes |-> 0, db |-> db, partial |-> 0]
    ELSE LET run == DeleteStatement(db, ids, failAt)
         IN  [ok |-> run.ok, changes |-> run.changes, db |-> Transaction(db, run),
              partial |-> Len(db) - Len(run.db)]

(***************************************************************************)
(* repositories/TodoRepository.ts: findAll                                 *)
(***************************************************************************)
RECURSIVE Like(_, _)
\* text LIKE pattern: % matches any run of characters, _ any one character, letters
\* match without regard to ASCII case
Like(pattern, text) ==
    IF pattern = <<>> THEN text = <<>>
    ELSE IF Head(pattern) = "%"
         THEN \/ Like(Tail(pattern), text)
              \/ (text # <<>> /\ Like(pattern, Tail(text)))
         ELSE /\ text # <<>>
              /\ (Head(pattern) = "_" \/ Lower(Head(pattern)) = Lower(Head(text)))
              /\ Like(Tail(pattern), Tail(text))

\* the WHERE clause findAll builds from filter, priority, search and tags
Matches(row, params) ==
    /\ (params.filter = Some("active") => row.completed = 0)
    /\ (params.filter = Some("completed") => row.completed = 1)
    /\ (params.priority # UNDEF => row.priority = params.priority[1])
    /\ ((params.search # UNDEF /\ Trim(params.search[1]) # <<>>)
          => LET pat == <<"%">> \o Trim(params.search[1]) \o <<"%">>
             IN  \/ Like(pat, row.title)
                 \/ (row.description # NULL /\ Like(pat, row.description[1])))
    /\ ((params.tags # UNDEF /\ params.tags[1] # <<>>)
          => \E k \in 1..Len(params.tags[1]) :
               /\ Len(JSONParse(row.tags)) > 0
               /\ Like(<<"%", "\"">> \o params.tags[1][k] \o <<"\"", "%">>, row.tags))

RECURSIVE Where(_, _)
\* the rows of db that satisfy the WHERE clause, in rowid order
Where(db, params) ==
    IF db = <<>> THEN <<>>
    ELSE IF Matches(Head(db), params) THEN <<Head(db)>> \o Where(Tail(db), params)
         ELSE Where(Tail(db), params)

\* the byte values of the characters of the model's alphabet (BINARY collation)
CharCode(c) ==
    CASE c = " " -> 32 [] c = "!" -> 33 [] c = "\"" -> 34 [] c = "#" -> 35
      [] c = "%" -> 37 [] c = "," -> 44 [] c = "-" -> 45 [] c = "1" -> 49
      [] c = "A" -> 65 [] c = "B" -> 66 [] c = "[" -> 91 [] c = "\\" -> 92
      [] c = "]" -> 93 [] c = "_" -> 95 [] c = "a" -> 97 [] c = "b" -> 98
      [] c = "c" -> 99 [] c = "d" -> 100 [] c = "u" -> 117 [] c = "x" -> 120
      [] c = "y" -> 121 [] OTHER -> 195

\* ORDER BY priority: the alphabetical order of the three words
PriorityRank_Alphabetical(priority) ==
    CASE priority = "high" -> 1 [] priority = "low" -> 2 [] priority = "medium" -> 3

\* ORDER BY CASE priority WHEN 'high' THEN 1 WHEN 'medium' THEN 2 WHEN 'low' THEN 3 END
PriorityRank(priority) ==
    CASE priority = "high" -> 1 [] priority = "medium" -> 2 [] priority = "low" -> 3

\* a timestamp text as a sort key: within one day 'YYYY-MM-DD HH:MM:SS' sorts before
\* 'YYYY-MM-DDTHH:MM:SS.sssZ' (the 11th character is a blank or a T), then by time
TimestampKey(text) == <<IF text.fmt = "sql" THEN 0 ELSE 1, text.t>>

\* sortFieldMap[sortBy] || 'created_at'
SortColumn(params) ==
    IF params.sortBy = UNDEF THEN "created_at"
    ELSE CASE params.sortBy[1] = "createdAt" -> "created_at"
           [] params.sortBy[1] = "updatedAt" -> "updated_at"
           [] params.sortBy[1] = "title" -> "title"
           [] params.sortBy[1] = "priority" -> "priority"
           [] params.sortBy[1] = "dueDate" -> "due_date"
           [] OTHER -> "created_at"

\* sortOrder.toUpperCase() === 'ASC' ? 'ASC' : 'DESC', with the default 'desc'
SortDirection(params) == IF params.sortOrder = Some("asc") THEN "ASC" ELSE "DESC"

\* the value ORDER BY compares, as a sequence of numbers compared lexicographically;
\* NULL (the empty sequence) sorts before every value
SortKey(row, params) ==
    IF params.sortBy = Some("priority") THEN <<PriorityRank(row.priority)>>
    ELSE CASE SortColumn(params) = "created_at" -> <<1>> \o TimestampKey(row.created_at)
           [] SortColumn(params) = "updated_at" -> <<1>> \o TimestampKey(row.updated_at)
           [] SortColumn(params) = "title" ->
                <<1>> \o [i \in 1..Len(row.title) |-> CharCode(row.title[i])]
           [] SortColumn(params) = "due_date" ->
                IF row.due_date = NULL THEN <<>>
                ELSE <<1>> \o TimestampKey(row.due_date[1])

RECURSIVE KeyLess(_, _)
KeyLess(a, b) ==
    IF b = <<>> THEN FALSE
    ELSE IF a = <<>> THEN TRUE
    ELSE IF Head(a) # Head(b) THEN Head(a) < Head(b)
    ELSE KeyLess(Tail(a), Tail(b))

\* whether row a must come before row b
Before(a, b, params) ==
    IF SortDirection(params) = "ASC" THEN KeyLess(SortKey(a, params), SortKey(b, params))
    ELSE KeyLess(SortKey(b, params), SortKey(a, params))

RECURSIVE InsertSorted(_, _, _)
\* r put into the sorted list after every row that need not come after it
InsertSorted(sorted, r, params) ==
    IF sorted = <<>> THEN <<r>>
    ELSE IF Before(r, Head(sorted), params) THEN <<r>> \o sorted
         ELSE <<Head(sorted)>> \o InsertSorted(Tail(sorted), r, params)

RECURSIVE OrderBy(_, _)
\* ORDER BY: rows with equal keys stay in rowid order, as SQLite's sorter leaves them
OrderBy(rows, params) ==
    IF rows = <<>> THEN <<>>
    ELSE InsertSorted(OrderBy(SubSeq(rows, 1, Len(rows) - 1), params),
                      rows[Len(rows)], params)

\* an offset that skips the page asked for
Offset_PageTimesLimit(page, limit) == page * limit

\* const offset = (page - 1) * limit
Offset(page, limit) == (page - 1) * limit

\* LIMIT ? OFFSET ?: a negative OFFSET counts as 0, a negative LIMIT as no limit
LimitOffset(rows, limit, offset) ==
    LET skip == IF offset < 0 THEN 0 ELSE offset
        take == IF limit < 0 THEN Len(rows) ELSE limit
        upto == IF skip + take > Len(rows) THEN Len(rows) ELSE skip + take
    IN  SubSeq(rows, skip + 1, upto)

\* a JavaScript number that may not be finite
JsInt(n) == [kind |-> "int", v |-> n]
JsInfinity == [kind |-> "inf", v |-> 0]
JsNaN == [kind |-> "nan", v |-> 0]

\* Math.ceil(a / b) for integers a >= 0 and b >= 0
MathCeilDiv(a, b) ==
    IF b = 0 THEN (IF a = 0 THEN JsNaN ELSE JsInfinity)
    ELSE JsInt((a + b - 1) \div b)

\* n < x for an integer n
JsLess(n, x) == x.kind = "inf" \/ (x.kind = "int" /\ n < x.v)

\* the destructuring defaults of findAll
PageOf(params) == IF params.page = UNDEF THEN DefaultPage ELSE params.page[1]
LimitOf(params) == IF params.limit = UNDEF THEN DefaultLimit ELSE params.limit[1]

\* a count taken with the OFFSET of the page applied
CountMatching_AfterOffset(db, params) ==
    Len(LimitOffset(Where(db, params), -1, Offset(PageOf(params), LimitOf(params))))

\* SELECT COUNT(*) ... with the same WHERE clause
CountMatching(db, params) == Len(Where(db, params))

\* TodoRepository.findAll
RepoFindAll(db, params) ==
    LET page == PageOf(params)
        limit == LimitOf(params)
        totalItems == CountMatching(db, params)
        rows == LimitOffset(OrderBy(Where(db, params), params), limit,
                            Offset(page, limit))
        totalPages == MathCeilDiv(totalItems, limit)
    IN  [data |-> [i \in 1..Len(rows) |-> ToJSON(FromDatabase(rows[i]))],
         meta |-> [currentPage |-> page,
                   totalPages |-> totalPages,
                   totalItems |-> totalItems,
                   itemsPerPage |-> limit,
                   hasNextPage |-> JsLess(page, totalPages),
                   hasPreviousPage |-> page > 1]]

\* TodoRepository.count(filter)
RepoCount(db, filter) ==
    Cardinality({i \in 1..Len(db) :
                   /\ (filter = "active" => db[i].completed = 0)
                   /\ (filter = "completed" => db[i].completed = 1)})

(***************************************************************************)
(* Number arithmetic (IEEE 754 binary64).  A non-negative number is the     *)
(* list of the bits of its binary expansion, most significant first, the    *)
(* last FractionBits of them after the point.                               *)
(***************************************************************************)
RECURSIVE IntBits(_, _)
\* the w low bits of the integer k
IntBits(k, w) == IF w = 0 THEN <<>> ELSE IntBits(k \div 2, w - 1) \o <<k % 2>>

RECURSIVE BitsValue(_)
\* the integer that a list of bits writes
BitsValue(bits) ==
    IF bits = <<>> THEN 0
    ELSE 2 * BitsValue(SubSeq(bits, 1, Len(bits) - 1)) + bits[Len(bits)]

RECURSIVE PowerOfTwoMod(_, _)
\* 2^n modulo b
PowerOfTwoMod(n, b) ==
    IF n = 0 THEN 1 % b
    ELSE LET h == PowerOfTwoMod(n \div 2, b)
         IN  (h * h * (IF n % 2 = 1 THEN 2 ELSE 1)) % b

\* what is left of r < b after n steps of the long division of r by b
RemainderAfter(r, b, n) == (r * PowerOfTwoMod(n, b)) % b

\* the first n bits after the point of r / b, for r < b: the i-th step of the long
\* division gives 1 when twice what is left reaches b
QuotientBits(r, b, n) ==
    [i \in 1..n |-> IF 2 * RemainderAfter(r, b, i - 1) >= b THEN 1 ELSE 0]

\* round to nearest, ties to even, to MantissaBits significant bits: `inexact` says that
\* the number is a little more than its bits write
RoundToDouble(bits, inexact) ==
    IF \A i \in 1..Len(bits) : bits[i] = 0 THEN bits
    ELSE LET lead == CHOOSE i \in 1..Len(bits) :
                         bits[i] = 1 /\ \A j \in 1..(i - 1) : bits[j] = 0
             low == lead + MantissaBits - 1
         IN  IF low >= Len(bits) THEN bits
             ELSE LET kept == [i \in 1..Len(bits) |-> IF i <= low THEN bits[i] ELSE 0]
                      more == inexact \/ \E i \in (low + 2)..Len(bits) : bits[i] = 1
                      up == bits[low + 1] = 1 /\ (more \/ bits[low] = 1)
                      zero == CHOOSE j \in 1..low :
                                  kept[j] = 0 /\ \A k \in (j + 1)..low : kept[k] = 1
                  IN  IF ~up THEN kept
                      ELSE [i \in 1..Len(bits) |->
                              IF i < zero THEN kept[i] ELSE IF i = zero THEN 1 ELSE 0]

\* a / b in Number arithmetic, for integers a >= 0 and b > 0
NumberDivide(a, b) ==
    RoundToDouble(IntBits(a \div b, IntegerBits) \o QuotientBits(a % b, b, FractionBits),
                  RemainderAfter(a % b, b, FractionBits) # 0)

RECURSIVE TimesBits(_, _, _)
\* the exact product of a number and the integer k < 128, eight bits at a time from the
\* least significant, carry being carried in; the product has eight bits more
TimesBits(bits, k, carry) ==
    IF bits = <<>> THEN IntBits(carry, 8)
    ELSE LET n == Len(bits)
             v == BitsValue(SubSeq(bits, n - 7, n)) * k + carry
         IN  TimesBits(SubSeq(bits, 1, n - 8), k, v \div 256) \o IntBits(v % 256, 8)

\* x * k in Number arithmetic
NumberTimes(x, k) == RoundToDouble(TimesBits(x, k, 0), FALSE)

\* Math.round(x): the nearest integer, a half going up
MathRound(x) ==
    BitsValue(SubSeq(x, 1, Len(x) - FractionBits)) + x[Len(x) - FractionBits + 1]

\* Math.round((a / b) * 100) for integers a >= 0 and b > 0
MathRoundPercent(a, b) == MathRound(NumberTimes(NumberDivide(a, b), 100))

\* total > 0 ? Math.round((completed / total) * 100) : 0
completionRate(total, completed) ==
    IF total > 0 THEN MathRoundPercent(completed, total) ELSE 0

\* what getStats computes after its third await: the overdue count, the counts by
\* priority and the completion rate, from the two counts taken before
StatsRest(db, clock, total, completed) ==
    [total |-> total,
     completed |-> completed,
     active |-> RepoCount(db, "active"),
     overdue |-> Cardinality({i \in 1..Len(db) :
                                /\ db[i].completed = 0
                                /\ db[i].due_date # NULL
                                /\ Datetime(db[i].due_date[1]).t < DatetimeNow(clock).t}),
     byPriority |-> [p \in Priorities |->
                       Cardinality({i \in 1..Len(db) : db[i].priority = p})],
     completionRate |-> completionRate(total, completed)]

\* TodoRepository.getStats when nothing runs between its queries
RepoGetStats(db, clock) ==
    StatsRest(db, clock, RepoCount(db, "all"), RepoCount(db, "completed"))

(***************************************************************************)
(* services/TodoService.ts: validation                                     *)
(***************************************************************************)
\* the index of the first tag that is empty once trimmed, or -1
FirstBadTag(tags) ==
    IF \E i \in 1..Len(tags) : Trim(tags[i]) = <<>>
    THEN (CHOOSE i \in 1..Len(tags) :
            /\ Trim(tags[i]) = <<>>
            /\ \A j \in 1..(i - 1) : Trim(tags[j]) # <<>>) - 1
    ELSE -1

\* the checks shared by validateCreateTodoDto and validateUpdateTodoDto on a title
\* that is present: "" when it passes, else the message's subject
TitleError(title) ==
    IF title = <<>> \/ Trim(title) = <<>> THEN "title-empty"
    ELSE IF Len(title) < TitleMin THEN "title-short"
    ELSE IF Len(title) > TitleMax THEN "title-long"
    ELSE IF ~TitleRegexTest(title) THEN "title-chars"
    ELSE ""

\* the checks on description, tags and dueDate, in the order of the code
OptionalFieldsError(dto) ==
    IF dto.description # UNDEF /\ Len(dto.description[1]) > DescriptionMax
    THEN "description-long"
    ELSE IF dto.tags # UNDEF /\ Len(dto.tags[1]) > TagsMax THEN "tags-many"
    ELSE IF dto.tags # UNDEF /\ FirstBadTag(dto.tags[1]) >= 0 THEN "tag-invalid"
    ELSE IF dto.dueDate # UNDEF /\ dto.dueDate[1] = InvalidTime THEN "dueDate-invalid"
    ELSE ""

\* TodoService.validateCreateTodoDto: "" when the dto passes
validateCreateTodoDto(dto) ==
    IF dto.title = UNDEF THEN "title-empty"
    ELSE IF TitleError(dto.title[1]) # "" THEN TitleError(dto.title[1])
    ELSE OptionalFieldsError(dto)

\* TodoService.validateUpdateTodoDto: "" when the dto passes
validateUpdateTodoDto(dto) ==
    IF dto.title # UNDEF /\ TitleError(dto.title[1]) # "" THEN TitleError(dto.title[1])
    ELSE OptionalFieldsError(dto)

\* Object.keys(dto).length === 0
NoKeys(dto) ==
    /\ dto.title = UNDEF /\ dto.description = UNDEF /\ dto.completed = UNDEF
    /\ dto.priority = UNDEF /\ dto.dueDate = UNDEF /\ dto.tags = UNDEF

\* a forEach that reports the last rejected element instead of throwing at the first
FirstInvalidIndex_Last(batch) ==
    IF \E i \in 1..Len(batch) : validateCreateTodoDto(batch[i]) # ""
    THEN (CHOOSE i \in 1..Len(batch) :
            /\ validateCreateTodoDto(batch[i]) # ""
            /\ \A j \in (i + 1)..Len(batch) : validateCreateTodoDto(batch[j]) = "") - 1
    ELSE -1

\* the forEach of TodoService.bulkCreate: the (0-based) index of the first element
\* that validateCreateTodoDto rejects, or -1
FirstInvalidIndex(batch) ==
    IF \E i \in 1..Len(batch) : validateCreateTodoDto(batch[i]) # ""
    THEN (CHOOSE i \in 1..Len(batch) :
            /\ validateCreateTodoDto(batch[i]) # ""
            /\ \A j \in 1..(i - 1) : validateCreateTodoDto(batch[j]) = "") - 1
    ELSE -1

(***************************************************************************)
(* services/TodoService.ts: handlers.  Each returns the outcome ("ok",     *)
(* "validation", "bad_request", "not_found" or "storage": the error kind   *)
(* that leaves the service), whether the repository was called, the        *)
(* collection afterwards and what the handler returns.                     *)
(***************************************************************************)
Result(op, outcome, db, called, index, count) ==
    [op |-> op, outcome |-> outcome, db |-> db, repoCalled |-> called,
     index |-> index, count |-> count, partial |-> 0, input |-> <<>>, size |-> 0]

\* a storage failure inside a transaction that had already changed `partial` rows
Aborted(op, db, partial) ==
    [Result(op, "storage", db, TRUE, -1, 0) EXCEPT !.partial = partial]

\* params.x && ...: undefined and 0 are both falsy
Truthy(n) == n # UNDEF /\ n[1] # 0

\* what getAllTodos answers: the page of tasks and its metadata, or a validation error
Response(outcome, called, params, page) ==
    [op |-> "getAllTodos", outcome |-> outcome, repoCalled |-> called, query |-> params,
     data |-> page.data, meta |-> page.meta]

NoPage == [data |-> <<>>, meta |-> <<>>]

\* TodoService.getAllTodos
getAllTodos(db, params) ==
    IF Truthy(params.page) /\ params.page[1] < 1
    THEN Response("validation", FALSE, params, NoPage)
    ELSE IF Truthy(params.limit) /\ params.limit[1] < 1
    THEN Response("validation", FALSE, params, NoPage)
    ELSE IF Truthy(params.limit) /\ params.limit[1] > LimitMax
    THEN Response("validation", FALSE, params, NoPage)
    ELSE Response("ok", TRUE, params, RepoFindAll(db, params))

\* TodoService.getTodoById
getTodoById(db, id) ==
    IF id = BlankId THEN [op |-> "getTodoById", outcome |-> "bad_request", data |-> <<>>]
    ELSE IF RepoFindById(db, id) = None
    THEN [op |-> "getTodoById", outcome |-> "not_found", data |-> <<>>]
    ELSE [op |-> "getTodoById", outcome |-> "ok",
          data |-> <<ToJSON(FromDatabase(RepoFindById(db, id)[1]))>>]

\* TodoService.createTodo
createTodo(db, dto, clock, freshId, ioFails) ==
    IF validateCreateTodoDto(dto) # ""
    THEN Result("createTodo", "validation", db, FALSE, -1, 0)
    ELSE LET r == RepoCreate(db, TodoCreate(dto, clock, freshId), ioFails)
         IN  IF r.ok THEN Result("createTodo", "ok", r.db, TRUE, -1, 1)
             ELSE Result("createTodo", "storage", r.db, TRUE, -1, 0)

\* TodoService.createTodo while the clock moves from `first` to `second`
createTodoAt(db, dto, first, second, freshId) ==
    IF validateCreateTodoDto(dto) # ""
    THEN Result("createTodo", "validation", db, FALSE, -1, 0)
    ELSE LET r == RepoCreate(db, TodoCreateAt(dto, first, second, freshId), FALSE)
         IN  IF r.ok THEN Result("createTodo", "ok", r.db, TRUE, -1, 1)
             ELSE Result("createTodo", "storage", r.db, TRUE, -1, 0)

\* dto.todos.map(todoDto => Todo.create(todoDto)): the k-th todo gets the k-th fresh id
CreateAll(batch, clock, firstId) ==
    [k \in 1..Len(batch) |-> TodoCreate(batch[k], clock, firstId + k - 1)]

\* TodoService.bulkCreate
bulkCreate(db, batch, clock, firstId, failAt) ==
    IF Len(batch) = 0 \/ Len(batch) > BulkMax
    THEN Result("bulkCreate", "validation", db, FALSE, -1, 0)
    ELSE IF FirstInvalidIndex(batch) >= 0
    THEN Result("bulkCreate", "validation", db, FALSE, FirstInvalidIndex(batch), 0)
    ELSE LET r == RepoBulkCreate(db, CreateAll(batch, clock, firstId), failAt)
         IN  IF r.ok THEN Result("bulkCreate", "ok", r.db, TRUE, -1, Len(batch))
             ELSE Aborted("bulkCreate", r.db, r.partial)

\* TodoService.updateTodo
updateTodo(db, id, dto, clock) ==
    IF id = BlankId THEN Result("updateTodo", "bad_request", db, FALSE, -1, 0)
    ELSE IF NoKeys(dto) THEN Result("updateTodo", "bad_request", db, FALSE, -1, 0)
    ELSE IF validateUpdateTodoDto(dto) # ""
    THEN Result("updateTodo", "validation", db, FALSE, -1, 0)
    ELSE LET r == RepoUpdate(db, id, dto, clock)
         IN  IF r.result = "null" THEN Result("updateTodo", "not_found", r.db, TRUE, -1, 0)
             ELSE IF r.result = "throw"
             THEN Result("updateTodo", "storage", r.db, TRUE, -1, 0)
             ELSE Result("updateTodo", "ok", r.db, TRUE, -1, 1)

\* a deleteTodo that ignored the boolean repository.delete returns
deleteTodo_IgnoresResult(db, id) ==
    LET r == RepoDelete(db, id)
    IN  IF id = BlankId THEN Result("deleteTodo", "bad_request", db, FALSE, -1, 0)
        ELSE Result("deleteTodo", "ok", r.db, TRUE, -1, 1)

\* TodoService.deleteTodo
deleteTodo(db, id) ==
    LET r == RepoDelete(db, id)
    IN  IF id = BlankId THEN Result("deleteTodo", "bad_request", db, FALSE, -1, 0)
        ELSE IF r.deleted THEN Result("deleteTodo", "ok", r.db, TRUE, -1, 1)
        ELSE Result("deleteTodo", "not_found", r.db, TRUE, -1, 0)

\* a bulkDelete that checked the list for emptiness only
bulkDelete_NoCap(db, ids, failAt) ==
    IF Len(ids) = 0
    THEN Result("bulkDelete", "validation", db, FALSE, -1, 0)
    ELSE IF \E i \in 1..Len(ids) : ids[i] = BlankId
    THEN Result("bulkDelete", "validation", db, FALSE,
                (CHOOSE i \in 1..Len(ids) :
                    ids[i] = BlankId /\ \A j \in 1..(i - 1) : ids[j] # BlankId) - 1, 0)
    ELSE LET r == RepoBulkDelete(db, ids, failAt)
         IN  IF r.ok THEN Result("bulkDelete", "ok", r.db, TRUE, -1, r.changes)
             ELSE Aborted("bulkDelete", r.db, r.partial)

\* TodoService.bulkDelete
bulkDelete(db, ids, failAt) ==
    IF Len(ids) = 0 \/ Len(ids) > BulkMax
    THEN Result("bulkDelete", "validation", db, FALSE, -1, 0)
    ELSE IF \E i \in 1..Len(ids) : ids[i] = BlankId
    THEN Result("bulkDelete", "validation", db, FALSE,
                (CHOOSE i \in 1..Len(ids) :
                    ids[i] = BlankId /\ \A j \in 1..(i - 1) : ids[j] # BlankId) - 1, 0)
    ELSE LET r == RepoBulkDelete(db, ids, failAt)
         IN  IF r.ok THEN Result("bulkDelete", "ok", r.db, TRUE, -1, r.changes)
             ELSE Aborted("bulkDelete", r.db, r.partial)

\* TodoService.deleteCompleted
deleteCompleted(db) ==
    LET r == RepoDeleteCompleted(db)
    IN  Result("deleteCompleted", "ok", r.db, TRUE, -1, r.changes)

(***************************************************************************)
(* Inputs                                                                  *)
(***************************************************************************)
Str_abc == <<"a", "b", "c">>
Str_Buy == <<"B", "u", "y">>
Str_ab == <<"a", "b">>
Str_x == <<"x">>

CreateDto(title, description, priority, dueDate, tags) ==
    [title |-> title, description |-> description, priority |-> priority,
     dueDate |-> dueDate, tags |-> tags]

\* create inputs: a title alone; every optional field but dueDate (an empty
\* description among them); a title that is too short; a dueDate
CreateDtos ==
    {CreateDto(Some(Str_abc), UNDEF, UNDEF, UNDEF, UNDEF),
     CreateDto(Some(Str_Buy), Some(<<>>), Some("high"), UNDEF, Some(<<Str_x>>)),
     CreateDto(Some(Str_ab), UNDEF, UNDEF, UNDEF, UNDEF),
     CreateDto(Some(Str_abc), UNDEF, Some("low"), Some(1), UNDEF)}

UpdateDto(title, completed, priority) ==
    [title |-> title, description |-> UNDEF, completed |-> completed,
     priority |-> priority, dueDate |-> UNDEF, tags |-> UNDEF]

\* update inputs: completed alone (both values), two other fields, a title that is too
\* short, and no field at all
UpdateDtos ==
    {UpdateDto(UNDEF, Some(TRUE), UNDEF),
     UpdateDto(UNDEF, Some(FALSE), UNDEF),
     UpdateDto(Some(Str_Buy), UNDEF, Some("low")),
     UpdateDto(Some(Str_ab), UNDEF, UNDEF),
     UpdateDto(UNDEF, UNDEF, UNDEF)}

Ids == 1..MaxIds

\* the ids a request may name: those of tasks that exist or may have, and the empty one
RequestIds == Ids \cup {BlankId}

RECURSIVE SeqsUpTo(_, _)
\* the sequences over S of length at most n
SeqsUpTo(S, n) ==
    IF n = 0 THEN {<<>>}
    ELSE LET shorter == SeqsUpTo(S, n - 1)
         IN  shorter \cup {Append(q, x) : q \in shorter, x \in S}

\* bulkCreate inputs: every list of at most MaxBatch elements, and one list that is
\* one element over the cap
Dto_valid == CreateDto(Some(Str_abc), UNDEF, UNDEF, UNDEF, UNDEF)
Dto_short == CreateDto(Some(Str_ab), UNDEF, UNDEF, UNDEF, UNDEF)
Dto_due == CreateDto(Some(Str_Buy), UNDEF, Some("high"), Some(1), UNDEF)

\* bulkCreate inputs: every list of at most MaxBatch elements that are a valid one or
\* one whose title is too short, two lists with a valid element that has a dueDate, and
\* one list that is one element over the cap
Batches ==
    SeqsUpTo({Dto_valid, Dto_short}, MaxBatch)
        \cup {<<Dto_due>>, <<Dto_valid, Dto_due>>}
        \cup {Rep(Dto_valid, BulkMax + 1)}

RECURSIVE Ascending(_)
\* the elements of a set of ids as a list, in ascending order
Ascending(S) ==
    IF S = {} THEN <<>>
    ELSE LET m == CHOOSE x \in S : \A y \in S : x <= y
         IN  <<m>> \o Ascending(S \ {m})

\* bulk id lists: every set of ids as a list, a list that names an id twice, one with
\* an empty id, one of exactly the cap and one that is one element over the cap
IdLists ==
    {Ascending(S) : S \in SUBSET Ids}
        \cup {<<1, 1>>, <<1, BlankId>>}
        \cup {Rep(1, BulkMax), Rep(1, BulkMax + 1)}

\* the lists handed to bulkComplete and bulkUncomplete: no id, one id, every id
MarkLists == {Ascending(S) : S \in {T \in SUBSET Ids : Cardinality(T) \in {0, 1, MaxIds}}}

(***************************************************************************)
(* The service as a state machine: one action per handler                  *)
(***************************************************************************)
NoTx == [op |-> "none"]
NoReq == [op |-> "none"]
Idle == [op |-> "init", outcome |-> "ok", repoCalled |-> FALSE, index |-> -1,
         count |-> 0, partial |-> 0, input |-> <<>>, size |-> 0, response |-> None]

Init ==
    /\ todos = <<>>
    /\ now = 0
    /\ nextId = 0
    /\ last = Idle
    /\ tx = NoTx
    /\ req = NoReq

\* the bulk writes committed since a getStats that is suspended at an await began:
\* how many, and the collection before and after the latest
Journal(r) ==
    IF req.op = "getStats" /\ r.op \in {"bulkCreate", "bulkDelete"} /\ r.outcome = "ok"
    THEN [op |-> "committed", n |-> IF tx.op = "committed" THEN tx.n + 1 ELSE 1,
          before |-> todos, after |-> r.db]
    ELSE tx

(***************************************************************************)
(* utils/errors and middlewares/errorHandler.ts: from a thrown error to the *)
(* HTTP response.  An error is its class as far as the handler reads it:   *)
(* whether it is an ApiError, its statusCode and its code.                 *)
(***************************************************************************)
ApiError(statusCode, code) == [isApi |-> TRUE, statusCode |-> statusCode, code |-> code]

BadRequestError == ApiError(400, "BAD_REQUEST")
TodoNotFoundError == ApiError(404, "TODO_NOT_FOUND")
ValidationError == ApiError(422, "VALIDATION_ERROR")
InternalServerError == ApiError(500, "INTERNAL_SERVER_ERROR")

\* an Error that is not an ApiError: what better-sqlite3 and the repository throw
PlainError == [isApi |-> FALSE, statusCode |-> 0, code |-> "Error"]

isApiError(error) == error.isApi

toApiError(error) == IF isApiError(error) THEN error ELSE InternalServerError

\* an error handler that answered every error as an internal one
errorHandler_AllInternal(error) ==
    [status |-> InternalServerError.statusCode,
     body |-> [success |-> FALSE, statusCode |-> InternalServerError.statusCode,
               code |-> InternalServerError.code]]

\* errorHandler: res.status(apiError.statusCode).json({success: false, error: {...}})
errorHandler(error) ==
    LET apiError == IF isApiError(error) THEN error ELSE toApiError(error)
    IN  [status |-> apiError.statusCode,
         body |-> [success |-> FALSE, statusCode |-> apiError.statusCode,
                   code |-> apiError.code]]

\* the error a service method throws for each way it can fail
Thrown(outcome) ==
    CASE outcome = "validation" -> ValidationError
      [] outcome = "bad_request" -> BadRequestError
      [] outcome = "not_found" -> TodoNotFoundError
      [] outcome = "storage" -> PlainError

\* the controller's catch: next(error) hands the error to errorHandler; no error
\* response when the service method returned
ErrorResponse(outcome) ==
    IF outcome = "ok" THEN None ELSE Some(errorHandler(Thrown(outcome)))

\* what a finished handler leaves behind
Finish(r, usedIds) ==
    /\ (req.op = "getStats" /\ tx.op = "committed") => tx.n < MaxWrites
    /\ todos' = r.db
    /\ nextId' = nextId + usedIds
    /\ last' = [op |-> r.op, outcome |-> r.outcome, repoCalled |-> r.repoCalled,
                index |-> r.index, count |-> r.count, partial |-> r.partial,
                input |-> r.input, size |-> r.size,
                response |-> ErrorResponse(r.outcome)]
    /\ tx' = Journal(r)
    /\ UNCHANGED <<now, req>>

CreateTodo(dto, ioFails) ==
    LET r == createTodo(todos, dto, now, nextId + 1, ioFails)
    IN  /\ nextId + r.count <= MaxIds
        /\ Finish(r, r.count)

\* for each element of a batch within the cap, whether validateCreateTodoDto accepts it
Validity(batch) ==
    IF Len(batch) > BulkMax THEN <<>>
    ELSE [k \in 1..Len(batch) |-> validateCreateTodoDto(batch[k]) = ""]

BulkCreate(batch, failAt) ==
    LET r == bulkCreate(todos, batch, now, nextId + 1, failAt)
    IN  /\ nextId + r.count <= MaxIds
        /\ Finish([r EXCEPT !.input = Validity(batch), !.size = Len(batch)], r.count)

\* whether an update body gets past the checks that updateTodo makes before it looks
\* the task up: it has a field, and validateUpdateTodoDto accepts it
BodyAccepted(dto) == ~NoKeys(dto) /\ validateUpdateTodoDto(dto) = ""

UpdateTodo(id, dto) ==
    /\ id \in RequestIds
    /\ Finish([updateTodo(todos, id, dto, now) EXCEPT !.input = <<id, BodyAccepted(dto)>>], 0)

DeleteTodo(id) ==
    /\ id \in RequestIds
    /\ Finish([deleteTodo(todos, id) EXCEPT !.input = <<id>>], 0)

BulkDelete(ids, failAt) ==
    /\ ids \in IdLists
    /\ Finish([bulkDelete(todos, ids, failAt) EXCEPT !.input = ids, !.size = Len(ids)], 0)

\* GET /todos/:id, one query
GetTodoById(id) ==
    /\ id \in RequestIds
    /\ last' = [op |-> "getTodoById", outcome |-> getTodoById(todos, id).outcome,
                data |-> getTodoById(todos, id).data, input |-> <<id>>,
                response |-> ErrorResponse(getTodoById(todos, id).outcome)]
    /\ UNCHANGED <<todos, now, nextId, tx, req>>

DeleteCompleted ==
    /\ tx = NoTx
    /\ Finish(deleteCompleted(todos), 0)

\* TodoRepository.bulkComplete, called on the repository (the service does not wrap it)
BulkComplete(ids) ==
    /\ ids \in MarkLists
    /\ LET r == RepoBulkComplete(todos, ids, now)
       IN  Finish(Result("bulkComplete", "ok", IF Len(ids) = 0 THEN todos ELSE r.db,
                         TRUE, -1, IF Len(ids) = 0 THEN 0 ELSE r.changes), 0)

\* TodoRepository.bulkUncomplete, called on the repository
BulkUncomplete(ids) ==
    /\ ids \in MarkLists
    /\ LET r == RepoBulkUncomplete(todos, ids, now)
       IN  Finish(Result("bulkUncomplete", "ok", IF Len(ids) = 0 THEN todos ELSE r.db,
                         TRUE, -1, IF Len(ids) = 0 THEN 0 ELSE r.changes), 0)

\* the positions of a bulk id list at which the storage engine may fail (0: it does
\* not): the last id of a list of two or more ids, so that the failure comes after a
\* part of the list was removed
FailPoints(list) ==
    IF Len(list) \in 2..MaxIds /\ BlankId \notin SeqRange(list) THEN {0, Len(list)}
    ELSE {0}

\* the same for a bulkCreate batch: a batch that is rejected never reaches the engine,
\* the others fail at their last element
BatchFailPoints(batch) ==
    IF Len(batch) > BulkMax \/ FirstInvalidIndex(batch) >= 0 THEN {0}
    ELSE {0, Len(batch)}

Next ==
    \/ \E dto \in CreateDtos, ioFails \in BOOLEAN : CreateTodo(dto, ioFails)
    \/ \E batch \in Batches : \E failAt \in BatchFailPoints(batch) : BulkCreate(batch, failAt)
    \/ \E id \in RequestIds, dto \in UpdateDtos : UpdateTodo(id, dto)
    \/ \E id \in RequestIds : DeleteTodo(id)
    \/ \E id \in RequestIds : GetTodoById(id)
    \/ \E ids \in IdLists : \E failAt \in FailPoints(ids) : BulkDelete(ids, failAt)
    \/ DeleteCompleted
    \/ \E ids \in MarkLists : BulkComplete(ids)
    \/ \E ids \in MarkLists : BulkUncomplete(ids)

Spec == Init /\ [][Next]_vars

(***************************************************************************)
(* Queries over a collection that does not change                          *)
(***************************************************************************)
\* the tasks a queried collection is made of: a high-priority one with a tag, one
\* of default priority that has been completed, a low-priority one with a description
QueryKinds == {"high", "done", "low"}

KindDto(kind) ==
    CASE kind = "high" -> CreateDto(Some(Str_Buy), UNDEF, Some("high"), UNDEF, Some(<<Str_x>>))
      [] kind = "done" -> Dto_valid
      [] kind = "low"  -> CreateDto(Some(Str_abc), Some(Str_Buy), Some("low"), UNDEF, UNDEF)

RECURSIVE CreateEach(_, _, _)
\* createTodo for the k-th kind onwards, two creations per clock tick
CreateEach(db, kinds, k) ==
    IF k > Len(kinds) THEN db
    ELSE CreateEach(createTodo(db, KindDto(kinds[k]), k \div 2, k, FALSE).db, kinds, k + 1)

\* the collection after the creations and the completion of the "done" tasks
Populated(kinds) ==
    RepoBulkComplete(CreateEach(<<>>, kinds, 1),
                     Ascending({k \in 1..Len(kinds) : kinds[k] = "done"}), Len(kinds)).db

Query(filter, sortBy, sortOrder, page, limit) ==
    [filter |-> filter, sortBy |-> sortBy, sortOrder |-> sortOrder, page |-> page,
     limit |-> limit, search |-> UNDEF, priority |-> UNDEF, tags |-> UNDEF]

\* a first page asked for in every way, valid or not; later pages come from NextPage
Pages == {UNDEF} \cup {Some(p) : p \in -1..1}
Limits == {UNDEF} \cup {Some(l) : l \in {-1, 0, 1, 2, LimitMax, LimitMax + 1}}

\* the same listing with a priority, a search text or a list of tags
Filtered(q, priority, search, tags) ==
    [q EXCEPT !.priority = priority, !.search = search, !.tags = tags]

\* listings by priority, by search text (plain, of another case, with the characters
\* _ and %), by tags (one, several, the character _) and by all filters at once
FilterQueries ==
    LET q == Query(UNDEF, UNDEF, UNDEF, UNDEF, Some(2))
    IN  {Filtered(q, Some("high"), UNDEF, UNDEF),
         Filtered(q, UNDEF, Some(<<"u">>), UNDEF),
         Filtered(q, UNDEF, Some(<<"B">>), UNDEF),
         Filtered(q, UNDEF, Some(<<"a", "_", "c">>), UNDEF),
         Filtered(q, UNDEF, Some(<<"%">>), UNDEF),
         Filtered(q, UNDEF, UNDEF, Some(<<Str_x>>)),
         Filtered(q, UNDEF, UNDEF, Some(<<Str_ab, Str_x>>)),
         Filtered(q, UNDEF, UNDEF, Some(<<Str_ab>>)),
         Filtered(q, UNDEF, UNDEF, Some(<<<<"_">>>>)),
         Filtered(Query(Some("active"), UNDEF, UNDEF, UNDEF, Some(2)),
                  Some("low"), Some(<<"b">>), UNDEF),
         Filtered(Query(Some("active"), UNDEF, UNDEF, UNDEF, Some(2)),
                  Some("high"), Some(<<"u">>), Some(<<Str_x>>))}

\* every page and limit of the default listing, and the filtered and sorted listings
\* two tasks a page
Queries ==
    {Query(UNDEF, UNDEF, UNDEF, p, l) : p \in Pages, l \in Limits}
    \cup {Query(f, s, o, UNDEF, Some(2)) :
            f \in {UNDEF, Some("active")},
            s \in {UNDEF, Some("priority"), Some("title")},
            o \in {UNDEF, Some("asc"), Some("desc")}}
    \cup FilterQueries

NoResponse == Response("ok", FALSE, Query(UNDEF, UNDEF, UNDEF, UNDEF, UNDEF), NoPage)

InitQuery ==
    /\ todos \in {Populated(kinds) : kinds \in SeqsUpTo(QueryKinds, MaxRows)}
    /\ now = MaxRows
    /\ nextId = Len(todos)
    /\ last = [NoResponse EXCEPT !.op = "init"]
    /\ tx = NoTx
    /\ req = NoReq

\* what a client that reads page after page of one query has seen so far
Paging(params, page, r, before) ==
    [op |-> "paging", query |-> params, page |-> page,
     sizes |-> before.sizes \o <<Len(r.data)>>,
     items |-> before.items \o [i \in 1..Len(r.data) |->
                                  [id |-> r.data[i].id, priority |-> r.data[i].priority]],
     first |-> before.first]

\* no page-by-page reading is under way: a client reads a listing to its last page
\* before it asks for another (what a query answers does not depend on earlier ones)
ReadingOver == IF req.op = "paging" THEN req.page = MaxPage ELSE TRUE

\* GET /todos with any query; a successful first page starts a page-by-page reading
GetAllTodos(params) ==
    LET r == getAllTodos(todos, params)
    IN  /\ params \in Queries
        /\ ReadingOver
        /\ last' = r
        /\ req' = IF r.outcome = "ok" /\ PageOf(params) = 1
                  THEN Paging(params, 1, r, [sizes |-> <<>>, items |-> <<>>, first |-> r.meta])
                  ELSE NoReq
        /\ UNCHANGED <<todos, now, nextId, tx>>

\* the same query for the next page
NextPage ==
    /\ req.op = "paging"
    /\ req.page < MaxPage
    /\ LET params == [req.query EXCEPT !.page = Some(req.page + 1)]
           r == getAllTodos(todos, params)
       IN  /\ last' = r
           /\ req' = Paging(req.query, req.page + 1, r, req)
    /\ UNCHANGED <<todos, now, nextId, tx>>

NextQuery ==
    \/ \E params \in Queries : GetAllTodos(params)
    \/ NextPage

SpecQuery == InitQuery /\ [][NextQuery]_vars

(***************************************************************************)
(* Reads that run while other requests write                               *)
(***************************************************************************)
\* the tasks present when the requests arrive; the ids left are for bulkCreate
InitConc ==
    /\ todos \in {Populated(kinds) : kinds \in SeqsUpTo(QueryKinds, MaxIds)}
    /\ now = MaxIds
    /\ nextId = Len(todos)
    /\ last = Idle
    /\ tx = NoTx
    /\ req = NoReq

\* getStats up to its first await: the count of all tasks
StatsTotal ==
    /\ req.op # "getStats"
    /\ req' = [op |-> "getStats", pc |-> "completed", total |-> RepoCount(todos, "all"),
               completed |-> 0]
    /\ tx' = NoTx
    /\ UNCHANGED <<todos, now, nextId, last>>

\* getStats between its first and second await: the count of completed tasks
StatsCompleted ==
    /\ req.op = "getStats"
    /\ req.pc = "completed"
    /\ req' = [req EXCEPT !.pc = "active", !.completed = RepoCount(todos, "completed")]
    /\ UNCHANGED <<todos, now, nextId, last, tx>>

\* getStats from its second await to its return
StatsActive ==
    /\ req.op = "getStats"
    /\ req.pc = "active"
    /\ last' = [op |-> "getStats", outcome |-> "ok",
                stats |-> StatsRest(todos, now, req.total, req.completed)]
    /\ req' = NoReq
    /\ UNCHANGED <<todos, now, nextId, tx>>

NextConc ==
    \/ \E batch \in Batches : \E failAt \in BatchFailPoints(batch) : BulkCreate(batch, failAt)
    \/ \E ids \in IdLists : \E failAt \in FailPoints(ids) : BulkDelete(ids, failAt)
    \/ StatsTotal
    \/ StatsCompleted
    \/ StatsActive
    \/ \E id \in RequestIds : GetTodoById(id)

SpecConc == InitConc /\ [][NextConc]_vars

(***************************************************************************)
(* The completion rate as a function of the two counts                     *)
(***************************************************************************)
\* the counts handed to the computation: any number of tasks up to MaxTotal, any
\* number of them completed
InitRate ==
    /\ todos = <<>>
    /\ now = 0
    /\ nextId = 0
    /\ last = Idle
    /\ tx = NoTx
    /\ req \in {[op |-> "completionRate", total |-> t, completed |-> c] :
                    t \in 0..MaxTotal, c \in 0..MaxTotal}
    /\ req.completed <= req.total

\* the last statement of getStats before its return
CompletionRate ==
    /\ req.op = "completionRate"
    /\ last' = [op |-> "completionRate", outcome |-> "ok", total |-> req.total,
                completed |-> req.completed,
                rate |-> completionRate(req.total, req.completed)]
    /\ req' = NoReq
    /\ UNCHANGED <<todos, now, nextId, tx>>

NextRate == CompletionRate

SpecRate == InitRate /\ [][NextRate]_vars

(***************************************************************************)
(* The service under a clock that advances: createTodo and updateTodo      *)
(* between ticks, a tick being half a second                               *)
(***************************************************************************)
Str_a_spaced == <<" ", "a", " ">>
Str_b_spaced == <<" ", "b", " ">>
Str_a_lt_b == <<"a", "<", "b">>

\* create inputs: a title alone; a title of one letter between two spaces; a title and a
\* description of the greatest length; a dueDate; and three titles that are too short,
\* too long and with a character outside the class
TaskDtos ==
    {Dto_valid,
     CreateDto(Some(Str_a_spaced), UNDEF, UNDEF, UNDEF, UNDEF),
     CreateDto(Some(Str_Buy), Some(Rep("d", DescriptionMax)), UNDEF, UNDEF, UNDEF),
     Dto_due,
     Dto_short,
     CreateDto(Some(Rep("a", TitleMax + 1)), UNDEF, UNDEF, UNDEF, UNDEF),
     CreateDto(Some(Str_a_lt_b), UNDEF, UNDEF, UNDEF, UNDEF)}

\* update inputs: those of UpdateDtos and a title of one letter between two spaces
TaskUpdates == UpdateDtos \cup {UpdateDto(Some(Str_b_spaced), UNDEF, UNDEF)}

InitTime == Init

\* the clock advances by one tick
Tick ==
    /\ now < MaxTime
    /\ now' = now + 1
    /\ UNCHANGED <<todos, nextId, last, tx, req>>

\* createTodo while the clock advances by `drift` ticks between the two readings of
\* Todo.create
CreateTask(dto, drift) ==
    LET r == createTodoAt(todos, dto, now, now + drift, nextId + 1)
    IN  /\ nextId + r.count <= MaxIds
        /\ now + drift <= MaxTime
        /\ todos' = r.db
        /\ nextId' = nextId + r.count
        /\ now' = now + drift
        /\ last' = [op |-> r.op, outcome |-> r.outcome, repoCalled |-> r.repoCalled,
                    index |-> r.index, count |-> r.count, partial |-> r.partial,
                    input |-> r.input, size |-> r.size,
                    response |-> ErrorResponse(r.outcome)]
        /\ UNCHANGED <<tx, req>>

\* bulkCreate inputs: a valid element and one whose title is a letter between two
\* spaces; the same with a title outside the class first
TaskBatches ==
    {<<Dto_valid, CreateDto(Some(Str_a_spaced), UNDEF, UNDEF, UNDEF, UNDEF)>>,
     <<CreateDto(Some(Str_a_lt_b), UNDEF, UNDEF, UNDEF, UNDEF), Dto_valid>>}

NextTime ==
    \/ Tick
    \/ \E dto \in TaskDtos, drift \in {0, 1} : CreateTask(dto, drift)
    \/ \E batch \in TaskBatches : BulkCreate(batch, 0)
    \/ \E id \in Ids, dto \in TaskUpdates : UpdateTodo(id, dto)

SpecTime == InitTime /\ [][NextTime]_vars

(***************************************************************************)
(* One Todo entity in memory and the calls made on it                      *)
(***************************************************************************)
\* the entities the calls are made on: one that Todo.create has just made, and one
\* that Todo.fromDatabase rebuilt from the row of a completed task
Entities ==
    {TodoCreate(dto, 0, 1) : dto \in {Dto_valid, Dto_due}}
        \cup {FromDatabase(RepoBulkComplete(<<ToDatabase(TodoCreate(dto, 0, 1))>>,
                                            <<1>>, 0).db[1]) : dto \in {Dto_valid}}

\* what is known of the entity: its fields, the call made last and the one before it,
\* and the fields before the call made last
Called(todo, call) ==
    [op |-> "entity", todo |-> todo, before |-> req.todo, call |-> call, prev |-> req.call]

InitEntity ==
    /\ todos = <<>>
    /\ now = 0
    /\ nextId = 0
    /\ last = Idle
    /\ tx = NoTx
    /\ req \in {[op |-> "entity", todo |-> e, before |-> e, call |-> "none",
                  prev |-> "none"] : e \in Entities}

Complete ==
    /\ req.op = "entity"
    /\ req' = Called(complete(req.todo, now), "complete")
    /\ UNCHANGED <<todos, now, nextId, last, tx>>

Uncomplete ==
    /\ req.op = "entity"
    /\ req' = Called(uncomplete(req.todo, now), "uncomplete")
    /\ UNCHANGED <<todos, now, nextId, last, tx>>

Toggle ==
    /\ req.op = "entity"
    /\ req' = Called(toggle(req.todo, now), "toggle")
    /\ UNCHANGED <<todos, now, nextId, last, tx>>

NextEntity ==
    \/ Tick
    \/ Complete
    \/ Uncomplete
    \/ Toggle

SpecEntity == InitEntity /\ [][NextEntity]_vars

(***************************************************************************)
(* Two requests on one task that interleave at their awaits                *)
(***************************************************************************)
\* update bodies that succeed on an active task: a title, a priority, completed false
RaceUpdates ==
    {UpdateDto(Some(Str_Buy), UNDEF, UNDEF),
     UpdateDto(UNDEF, UNDEF, Some("low")),
     UpdateDto(UNDEF, Some(FALSE), UNDEF)}

\* a call of updateTodo or deleteTodo that has not begun
Call(kind, id, dto) ==
    [kind |-> kind, id |-> id, dto |-> dto, pc |-> "start", outcome |-> "none"]

\* the pairs of calls made together: an updateTodo, and an updateTodo or a deleteTodo
RacePairs ==
    {<<Call("update", i, d), c>> :
        i \in Ids, d \in RaceUpdates,
        c \in {Call("update", j, e) : j \in Ids, e \in RaceUpdates}
                \cup {Call("delete", j, UpdateDto(UNDEF, UNDEF, UNDEF)) : j \in Ids}}

\* one task is stored, with id 1, when the two calls are made
InitRace ==
    /\ todos \in {createTodo(<<>>, dto, 0, 1, FALSE).db : dto \in CreateDtos \ {Dto_short}}
    /\ Len(todos) = 1
    /\ now = 0
    /\ nextId = 1
    /\ last = Idle
    /\ tx = NoTx
    /\ req \in {[op |-> "race", calls |-> pair] : pair \in RacePairs}

\* updateTodo from its call to the await in TodoRepository.update: the checks of the
\* service, then findById; the call ends here when findById finds no row
UpdateFind(k) ==
    /\ req.op = "race"
    /\ req.calls[k].kind = "update"
    /\ req.calls[k].pc = "start"
    /\ LET c == req.calls[k]
           r == updateTodo(todos, c.id, c.dto, now)
       IN  req' = IF r.outcome \in {"bad_request", "validation", "not_found"}
                  THEN [req EXCEPT !.calls[k].pc = "done", !.calls[k].outcome = r.outcome]
                  ELSE [req EXCEPT !.calls[k].pc = "found"]
    /\ UNCHANGED <<todos, now, nextId, last, tx>>

\* TodoRepository.update after its await: the row is read again, changed and written;
\* Todo.fromDatabase(undefined) throws a TypeError when the row is no longer there
UpdateApply(k) ==
    /\ req.op = "race"
    /\ req.calls[k].kind = "update"
    /\ req.calls[k].pc = "found"
    /\ LET c == req.calls[k]
           r == RepoUpdate(todos, c.id, c.dto, now)
       IN  /\ todos' = r.db
           /\ req' = [req EXCEPT !.calls[k].pc = "done",
                                 !.calls[k].outcome =
                                     IF r.result = "null" THEN "type_error"
                                     ELSE IF r.result = "throw" THEN "storage"
                                     ELSE "ok"]
    /\ UNCHANGED <<now, nextId, last, tx>>

\* deleteTodo: the DELETE statement runs before the first await of the call
DeleteCall(k) ==
    /\ req.op = "race"
    /\ req.calls[k].kind = "delete"
    /\ req.calls[k].pc = "start"
    /\ LET r == deleteTodo(todos, req.calls[k].id)
       IN  /\ todos' = r.db
           /\ req' = [req EXCEPT !.calls[k].pc = "done", !.calls[k].outcome = r.outcome]
    /\ UNCHANGED <<now, nextId, last, tx>>

NextRace ==
    \/ \E k \in {1, 2} : UpdateFind(k)
    \/ \E k \in {1, 2} : UpdateApply(k)
    \/ \E k \in {1, 2} : DeleteCall(k)

SpecRace == InitRace /\ [][NextRace]_vars

(***************************************************************************)
(* frontend/src/hooks/useTodosWithFilters.ts: the hook's state, the         *)
(* requests it has in flight, and the server's collection, which does not   *)
(* change                                                                   *)
(***************************************************************************)
\* the state after useState: the default parameters, no task, loading
Unmounted ==
    [op |-> "hook", mounted |-> FALSE, filter |-> "all", priority |-> UNDEF,
     page |-> DefaultPage, limit |-> DefaultLimit,
     data |-> <<>>, meta |-> None, loading |-> TRUE, error |-> FALSE,
     inflight |-> {}, issued |-> 0, latestOk |-> FALSE]

\* buildParams(): search is empty and tags is [], so neither is sent
buildParams(h) ==
    Filtered(Query(Some(h.filter), Some("createdAt"), Some("desc"), Some(h.page),
                   Some(h.limit)),
             h.priority, UNDEF, UNDEF)

\* loadTodos() up to its await: the request leaves with the parameters of this render
loadTodos(h) ==
    [h EXCEPT !.loading = TRUE, !.error = FALSE,
              !.inflight = @ \cup {[n |-> h.issued + 1, params |-> buildParams(h)]},
              !.issued = @ + 1]

InitHook ==
    /\ todos = Populated(<<"high", "done", "low">>)
    /\ now = MaxRows
    /\ nextId = Len(todos)
    /\ last = Idle
    /\ tx = NoTx
    /\ req = Unmounted

\* the effect that runs loadTodos at the first render
Mount ==
    /\ req.op = "hook"
    /\ ~req.mounted
    /\ req' = loadTodos([req EXCEPT !.mounted = TRUE])
    /\ UNCHANGED <<todos, now, nextId, last, tx>>

\* a changed parameter gives a new buildParams, hence a new loadTodos, and the effect
\* runs it
Reload(h) ==
    /\ req.op = "hook"
    /\ req.mounted
    /\ h # req
    /\ req.issued < MaxLoads
    /\ req' = loadTodos(h)
    /\ UNCHANGED <<todos, now, nextId, last, tx>>

SetFilter(filter) == Reload([req EXCEPT !.filter = filter])

SetPriority(priority) == Reload([req EXCEPT !.priority = priority])

SetPage(page) == Reload([req EXCEPT !.page = page])

\* loadTodos() after its await, the request having been answered
LoadTodosResolves(r) ==
    /\ req.op = "hook"
    /\ r \in req.inflight
    /\ LET response == getAllTodos(todos, r.params)
       IN  req' = [req EXCEPT !.data = response.data, !.meta = Some(response.meta),
                             !.loading = FALSE, !.inflight = @ \ {r},
                             !.latestOk = IF r.n = req.issued THEN TRUE ELSE @]
    /\ UNCHANGED <<todos, now, nextId, last, tx>>

\* loadTodos() after its await, the request having failed
LoadTodosRejects(r) ==
    /\ req.op = "hook"
    /\ r \in req.inflight
    /\ req' = [req EXCEPT !.error = TRUE, !.loading = FALSE, !.inflight = @ \ {r},
                          !.latestOk = IF r.n = req.issued THEN FALSE ELSE @]
    /\ UNCHANGED <<todos, now, nextId, last, tx>>

NextHook ==
    \/ Mount
    \/ \E filter \in {"all", "active", "completed"} : SetFilter(filter)
    \/ \E priority \in {UNDEF, Some("low")} : SetPriority(priority)
    \/ \E page \in {1, 2} : SetPage(page)
    \/ \E r \in req.inflight : LoadTodosResolves(r)
    \/ \E r \in req.inflight : LoadTodosRejects(r)

SpecHook == InitHook /\ [][NextHook]_vars

(***************************************************************************)
(* Properties                                                              *)
(***************************************************************************)

\* C1: every persisted task has completed_at set if and only if completed is 1, after
\* any sequence of createTodo, bulkCreate, updateTodo, bulkComplete, bulkUncomplete,
\* deleteTodo, bulkDelete and deleteCompleted.
C1_CompletedIffCompletedAt ==
    \A i \in 1..Len(todos) : (todos[i].completed = 1) <=> (todos[i].completed_at # NULL)

\* a successful updateTodo has just run on a collection that holds a completed task
C1_Witness ==
    /\ last.op = "updateTodo" /\ last.outcome = "ok"
    /\ \E i \in 1..Len(todos) : todos[i].completed = 1 /\ todos[i].completed_at # NULL
    /\ \E i \in 1..Len(todos) : todos[i].completed = 0 /\ todos[i].updated_at.fmt = "sql"

\* C2: a bulkCreate or bulkDelete that ends in a storage failure leaves the collection
\* as it was before the call, and none of the ids of the batch (the ids above nextId)
\* is in it.
C2_FailedBulkLeavesCollection ==
    [][(last'.op \in {"bulkCreate", "bulkDelete"} /\ last'.outcome = "storage")
        => /\ todos' = todos
           /\ \A i \in 1..Len(todos') : todos'[i].id <= nextId]_vars

\* a bulkCreate has failed at its second or a later insert, on a collection that is not
\* empty
C2_Witness ==
    /\ last.op = "bulkCreate" /\ last.outcome = "storage"
    /\ last.partial >= 1
    /\ todos # <<>>

\* C3: a bulkCreate of 1..100 elements of which one or more fail validation raises a
\* validation error that carries the index of the first failing element, persists
\* nothing and does not call the repository.  last.input records, for a batch within
\* the cap, which of its elements pass validateCreateTodoDto.
C3_InvalidBatchRejectedAtFirstIndex ==
    [][( /\ last'.op = "bulkCreate"
         /\ \E i \in 1..Len(last'.input) : ~last'.input[i] )
        => /\ last'.outcome = "validation"
           /\ \E i \in 1..Len(last'.input) :
                /\ ~last'.input[i]
                /\ \A j \in 1..(i - 1) : last'.input[j]
                /\ last'.index = i - 1
           /\ ~last'.repoCalled
           /\ todos' = todos
           /\ nextId' = nextId]_vars

\* a batch whose first failing element comes after a valid one has been rejected, on a
\* collection that is not empty
C3_Witness ==
    /\ last.op = "bulkCreate" /\ last.outcome = "validation"
    /\ last.index >= 1
    /\ todos # <<>>

C5_PaginationBoundsRejected ==
    last.op = "getAllTodos" =>
        LET page == last.query.page
            limit == last.query.limit
        IN  /\ (page # UNDEF /\ page[1] < 1)
                 => (last.outcome = "validation" /\ ~last.repoCalled)
            /\ (limit # UNDEF /\ (limit[1] < 1 \/ limit[1] > LimitMax))
                 => (last.outcome = "validation" /\ ~last.repoCalled)
            /\ (page # UNDEF /\ page[1] >= 1 /\ limit # UNDEF /\ limit[1] \in 1..LimitMax)
                 => last.outcome # "validation"

\* C6: the metadata of every accepted query has totalItems = the number of tasks that
\* match the filters, totalPages = ceil(totalItems / limit), itemsPerPage = limit,
\* currentPage = page, hasNextPage = (page < totalPages), hasPreviousPage = (page > 1),
\* all of them finite non-negative integers.
C6_MetadataConsistent ==
    (last.op = "getAllTodos" /\ last.outcome = "ok") =>
        LET m == last.meta
            page == IF last.query.page = UNDEF THEN 1 ELSE last.query.page[1]
            limit == IF last.query.limit = UNDEF THEN 50 ELSE last.query.limit[1]
            n == Cardinality({i \in 1..Len(todos) : Matches(todos[i], last.query)})
        IN  /\ m.totalItems = n
            /\ m.totalPages.kind = "int"
            /\ m.totalPages.v >= 0
            /\ m.totalPages.v * limit >= n
            /\ (m.totalPages.v > 0 => (m.totalPages.v - 1) * limit < n)
            /\ m.itemsPerPage = limit
            /\ m.currentPage = page
            /\ m.currentPage >= 0
            /\ m.hasNextPage = (page < m.totalPages.v)
            /\ m.hasPreviousPage = (page > 1)

\* C7: for a fixed filter, sort and limit in 1..100 over an unchanged collection, the
\* pages 1..totalPages hold totalItems tasks in all, every page before the last holds
\* exactly limit of them, and the last page holds the remainder.
C7_PagesPartitionResult ==
    (/\ req.op = "paging"
     /\ (req.query.limit = UNDEF \/ req.query.limit[1] \in 1..LimitMax)
     /\ req.first.totalPages.kind = "int"
     /\ req.page >= req.first.totalPages.v) =>
        LET n == req.first.totalPages.v
            limit == req.first.itemsPerPage
            total == req.first.totalItems
            upTo[p \in 0..n] == IF p = 0 THEN 0 ELSE upTo[p - 1] + req.sizes[p]
        IN  /\ upTo[n] = total
            /\ \A p \in 1..(n - 1) : req.sizes[p] = limit
            /\ n >= 1 => (req.sizes[n] = total - (n - 1) * limit /\ req.sizes[n] >= 1)

\* a reading two tasks a page has reached the second and last page, which holds one
C7_Witness ==
    /\ req.op = "paging"
    /\ req.query.limit = Some(2)
    /\ req.first.totalPages = JsInt(2)
    /\ req.page = 2
    /\ req.sizes = <<2, 1>>

\* C8: a page beyond totalPages is answered without error, with no task and with the
\* totalItems and totalPages that page 1 of the same query gave.
C8_PageBeyondLastIsEmpty ==
    (/\ req.op = "paging"
     /\ req.first.totalPages.kind = "int"
     /\ req.page > req.first.totalPages.v) =>
        /\ last.outcome = "ok"
        /\ last.meta.currentPage = req.page
        /\ last.data = <<>>
        /\ last.meta.totalItems = req.first.totalItems
        /\ last.meta.totalPages = req.first.totalPages

\* a reading of a collection that is not empty has gone past its last page
C8_Witness ==
    /\ req.op = "paging"
    /\ req.first.totalPages.kind = "int"
    /\ req.first.totalItems >= 2
    /\ req.page > req.first.totalPages.v
    /\ last.meta.totalItems >= 2

\* C10: with sortBy = priority, the tasks of all the pages read one after the other
\* come high first, then medium, then low when sortOrder is asc, and low first, then
\* medium, then high when sortOrder is desc.
C10_PriorityOrder ==
    (req.op = "paging" /\ req.query.sortBy = Some("priority")) =>
        LET place(priority) == CASE priority = "high" -> 1 [] priority = "medium" -> 2
                                 [] priority = "low" -> 3
        IN  \A i, j \in 1..Len(req.items) :
                i < j =>
                    /\ req.query.sortOrder = Some("asc")
                         => place(req.items[i].priority) <= place(req.items[j].priority)
                    /\ req.query.sortOrder = Some("desc")
                         => place(req.items[i].priority) >= place(req.items[j].priority)

\* an ascending reading by priority has crossed a page boundary and has seen a high,
\* a medium and a low task of a collection that stores the low one first
C10_Witness ==
    /\ req.op = "paging"
    /\ req.query.sortBy = Some("priority")
    /\ req.query.sortOrder = Some("asc")
    /\ req.page >= 2
    /\ Len(req.items) = 3
    /\ {req.items[i].priority : i \in 1..3} = Priorities
    /\ todos[1].priority = "low"

\* C11: the tasks counted in totalItems and returned over all the pages are exactly
\* those that satisfy every supplied filter at once (status, priority, search as a
\* case-insensitive substring of title or description, tags as membership of one of
\* them); a filter that is not supplied excludes no task, so leaving one out never
\* shrinks the result, and with no filter totalItems is the size of the collection.
C11_FiltersCompose ==
    (/\ req.op = "paging"
     /\ req.first.totalPages.kind = "int"
     /\ req.page >= req.first.totalPages.v) =>
        LET q == req.query
            contains(text, part) ==
                \E i \in 0..(Len(text) - Len(part)) :
                    ToLowerCase(SubSeq(text, i + 1, i + Len(part))) = ToLowerCase(part)
            satisfies(row) ==
                /\ (q.filter = Some("active") => row.completed = 0)
                /\ (q.filter = Some("completed") => row.completed = 1)
                /\ (q.priority # UNDEF => row.priority = q.priority[1])
                /\ (q.search # UNDEF =>
                      \/ contains(row.title, Trim(q.search[1]))
                      \/ (row.description # NULL
                            /\ contains(row.description[1], Trim(q.search[1]))))
                /\ ((q.tags # UNDEF /\ q.tags[1] # <<>>) =>
                      \E k \in 1..Len(q.tags[1]) : hasTag(FromDatabase(row), q.tags[1][k]))
            wanted == {todos[i].id : i \in {j \in 1..Len(todos) : satisfies(todos[j])}}
        IN  /\ {req.items[i].id : i \in 1..Len(req.items)} = wanted
            /\ Len(req.items) = Cardinality(wanted)
            /\ req.first.totalItems = Cardinality(wanted)
            /\ req.first.totalItems <= CountMatching(todos, [q EXCEPT !.filter = UNDEF])
            /\ req.first.totalItems <= CountMatching(todos, [q EXCEPT !.priority = UNDEF])
            /\ req.first.totalItems <= CountMatching(todos, [q EXCEPT !.search = UNDEF])
            /\ req.first.totalItems <= CountMatching(todos, [q EXCEPT !.tags = UNDEF])
            /\ (q.filter = UNDEF /\ q.priority = UNDEF /\ q.search = UNDEF /\ q.tags = UNDEF)
                 => req.first.totalItems = Len(todos)

\* C12: with a tags filter that is not empty and no other filter, a task is returned
\* if and only if its tags list holds at least one of the requested tags; a task that
\* holds none of them, one without tags included, is never returned.
C12_TagsClauseIsMembership ==
    (/\ req.op = "paging"
     /\ req.first.totalPages.kind = "int"
     /\ req.page >= req.first.totalPages.v
     /\ req.query.tags # UNDEF
     /\ req.query.tags[1] # <<>>
     /\ req.query.filter = UNDEF /\ req.query.priority = UNDEF /\ req.query.search = UNDEF) =>
        \A i \in 1..Len(todos) :
            (\E j \in 1..Len(req.items) : req.items[j].id = todos[i].id)
              <=> (\E k \in 1..Len(req.query.tags[1]) :
                     hasTag(FromDatabase(todos[i]), req.query.tags[1][k]))

\* C13: every result of getStats has active = total - completed, whatever other
\* requests write between the count queries that getStats awaits.
C13_ActiveIsTotalMinusCompleted ==
    last.op = "getStats" => last.stats.active = last.stats.total - last.stats.completed

\* C15: bulkDelete with a list of 1..100 ids (none of them empty, last.input), when
\* storage does not fail, raises no error, removes exactly the listed ids that exist, leaves every other
\* row as it was and in its place, and returns as deletedCount the number of distinct
\* listed ids that existed before the call, which is at most the length of the list.
C15_BulkDeleteRemovesListed ==
    [][( /\ last'.op = "bulkDelete"
         /\ Len(last'.input) \in 1..BulkMax
         /\ BlankId \notin SeqRange(last'.input)
         /\ last'.outcome # "storage" )
        => LET listed == SeqRange(last'.input)
               gone == listed \cap RowIds(todos)
           IN  /\ last'.outcome = "ok"
               /\ RowIds(todos') = RowIds(todos) \ gone
               /\ \A i \in 1..Len(todos), j \in 1..Len(todos) :
                    (i < j /\ todos[i].id \notin gone /\ todos[j].id \notin gone)
                        => \E k \in 1..Len(todos'), l \in 1..Len(todos') :
                              k < l /\ todos'[k] = todos[i] /\ todos'[l] = todos[j]
               /\ \A k \in 1..Len(todos') : \E i \in 1..Len(todos) : todos'[k] = todos[i]
               /\ Len(todos') = Cardinality(RowIds(todos'))
               /\ last'.count = Cardinality(gone)
               /\ last'.count <= Len(last'.input)]_vars

\* a bulkDelete of two ids has removed the one that existed and left another task
C15_Witness ==
    /\ last.op = "bulkDelete" /\ last.outcome = "ok"
    /\ Len(last.input) = 2
    /\ last.count = 1
    /\ Len(todos) = 1

\* C16: bulkCreate and bulkDelete answer a list of 0 elements and a list of more than
\* 100 elements (last.size is the length of the list) with a validation error, without
\* calling the repository, and leave the collection as it was; a list of 1..100
\* elements that are each valid (a create input that validateCreateTodoDto accepts, an
\* id that is not empty) is not answered with a validation error and reaches the
\* repository.
C16_BulkSizeCap ==
    [][LET outOfCap == last'.size = 0 \/ last'.size > BulkMax
           rejected == /\ last'.outcome = "validation"
                       /\ ~last'.repoCalled
                       /\ todos' = todos
                       /\ nextId' = nextId
           valid == IF last'.op = "bulkCreate"
                    THEN \A i \in 1..Len(last'.input) : last'.input[i]
                    ELSE BlankId \notin SeqRange(last'.input)
           accepted == /\ last'.outcome \in {"ok", "storage"}
                       /\ last'.repoCalled
                       /\ (last'.outcome = "ok" /\ last'.op = "bulkCreate")
                            => (Len(todos') = Len(todos) + last'.size)
       IN  (last'.op \in {"bulkCreate", "bulkDelete"}) =>
               /\ (outOfCap => rejected)
               /\ ((~outOfCap /\ valid) => accepted)]_vars

\* a bulkDelete of one id more than the cap has been rejected, on a collection that is
\* not empty
C16_Witness ==
    /\ last.op = "bulkDelete" /\ last.outcome = "validation"
    /\ last.size = BulkMax + 1
    /\ todos # <<>>

\* C17: deleteCompleted raises no error; after it no persisted task is completed, every
\* task that was active before the call is still there, unchanged and in its place, no
\* other task is there, and the count it returns is the number of tasks that were
\* completed before the call (0 when there were none).
C17_DeleteCompletedRemovesCompleted ==
    [][(last'.op = "deleteCompleted") =>
        LET wasActive == {i \in 1..Len(todos) : todos[i].completed = 0}
            wasCompleted == {i \in 1..Len(todos) : todos[i].completed # 0}
        IN  /\ last'.outcome = "ok"
            /\ \A k \in 1..Len(todos') : todos'[k].completed = 0
            /\ Len(todos') = Cardinality(wasActive)
            /\ \A i \in wasActive :
                    todos'[Cardinality({j \in wasActive : j <= i})] = todos[i]
            /\ last'.count = Cardinality(wasCompleted)
            /\ nextId' = nextId]_vars

\* a deleteCompleted has removed a completed task and left an active one
C17_Witness ==
    /\ last.op = "deleteCompleted" /\ last.outcome = "ok"
    /\ last.count >= 1
    /\ todos # <<>>

\* the handlers that take the id of one task
ByIdOps == {"getTodoById", "updateTodo", "deleteTodo"}

\* C18 as stated: for an id that is not in the collection, getTodoById, updateTodo and
\* deleteTodo each raise the not-found error and leave the collection unchanged.
C18_MissingIdIsNotFound ==
    [][( /\ last'.op \in ByIdOps
         /\ last'.input[1] # BlankId
         /\ last'.input[1] \notin RowIds(todos) )
        => (last'.outcome = "not_found" /\ todos' = todos)]_vars

\* C18 as amended: for an id that is not in the collection, getTodoById and deleteTodo
\* raise the not-found error, and so does updateTodo when its body has a field and
\* passes validateUpdateTodoDto (last.input[2]); a body without a field is answered with
\* a bad-request error and an invalid body with a validation error, before the task is
\* looked up.  The collection is unchanged in each case.  A task that deleteTodo
\* removed is not in the collection afterwards, an id is never given to a second task,
\* and a read that succeeds returns a task that is in the collection.
C18_MissingIdIsNotFoundAfterChecks ==
    [][LET id == last'.input[1]
           missing == id # BlankId /\ id \notin RowIds(todos)
           expected == IF last'.op = "updateTodo" /\ ~last'.input[2]
                       THEN {"bad_request", "validation"}
                       ELSE {"not_found"}
       IN  /\ (last'.op \in ByIdOps /\ missing)
                => (last'.outcome \in expected /\ todos' = todos)
           /\ (last'.op = "deleteTodo" /\ last'.outcome = "ok")
                => (id \in RowIds(todos) /\ RowIds(todos') = RowIds(todos) \ {id})
           /\ (last'.op = "getTodoById" /\ last'.outcome = "ok")
                => (id \in RowIds(todos') /\ last'.data[1].id = id)
           /\ RowIds(todos') \ RowIds(todos) \subseteq (nextId + 1)..nextId'
           /\ \A k \in 1..Len(todos') : todos'[k].id <= nextId']_vars

\* a second deleteTodo of a task that was created and deleted has raised not-found,
\* on a collection that is not empty
C18_Witness ==
    /\ last.op = "deleteTodo" /\ last.outcome = "not_found"
    /\ last.input[1] <= nextId
    /\ todos # <<>>

\* a handler has run and has thrown
Failed == last.op # "init" /\ last.outcome # "ok"

\* C19 as stated: every error raised by the core reaches the HTTP response mapped as
\* validation error -> status 400, not-found error -> status 404, storage failure ->
\* status 500.
C19_StatusMapping ==
    Failed =>
        /\ last.response # None
        /\ (last.outcome = "validation") => (last.response[1].status = 400)
        /\ (last.outcome = "not_found") => (last.response[1].status = 404)
        /\ (last.outcome = "storage") => (last.response[1].status = 500)

\* C19 as amended: every error raised by the core reaches the HTTP response with its
\* kind preserved (the code of the body tells the kinds apart, and the body carries the
\* status) and mapped as validation error -> status 422, bad-request error -> status
\* 400, not-found error -> status 404, storage failure -> status 500.
C19_StatusMappingOfTheErrorClasses ==
    Failed =>
        /\ last.response # None
        /\ last.response[1].body.success = FALSE
        /\ last.response[1].body.statusCode = last.response[1].status
        /\ (last.outcome = "validation") =>
                (last.response[1].status = 422
                    /\ last.response[1].body.code = "VALIDATION_ERROR")
        /\ (last.outcome = "bad_request") =>
                (last.response[1].status = 400 /\ last.response[1].body.code = "BAD_REQUEST")
        /\ (last.outcome = "not_found") =>
                (last.response[1].status = 404
                    /\ last.response[1].body.code = "TODO_NOT_FOUND")
        /\ (last.outcome = "storage") =>
                (last.response[1].status = 500
                    /\ last.response[1].body.code = "INTERNAL_SERVER_ERROR")

\* a createTodo has been answered with a validation error
C19_Witness ==
    /\ last.op = "createTodo" /\ last.outcome = "validation"
    /\ last.response # None

\* the fields of a task record other than updatedAt
FieldsButUpdatedAt(json) ==
    [id |-> json.id, title |-> json.title, description |-> json.description,
     completed |-> json.completed, priority |-> json.priority, dueDate |-> json.dueDate,
     tags |-> json.tags, createdAt |-> json.createdAt, completedAt |-> json.completedAt]

\* C20: for every input that createTodo accepts (validateCreateTodoDto passes and the
\* storage engine does not fail), createTodo returns a record, and getTodoById of its id
\* immediately afterwards returns a record equal to it on every field but updatedAt,
\* also when description is the empty string or dueDate is set.
C20_CreateThenFetch ==
    [][(last'.op = "createTodo") => \A dto \in CreateDtos :
        (validateCreateTodoDto(dto) = "" /\ CreateTodo(dto, FALSE))
        => /\ last'.outcome = "ok"
           /\ getTodoById(todos', nextId + 1).outcome = "ok"
           /\ FieldsButUpdatedAt(getTodoById(todos', nextId + 1).data[1])
                = FieldsButUpdatedAt(ToJSON(TodoCreate(dto, now, nextId + 1)))]_vars

\* C21: a task created from an input that supplies only a title has completed false,
\* priority medium, no tag, no completedAt, an id that no existing task has, and
\* createdAt equal to updatedAt (the task is read back from its row).
C21_TitleOnlyDefaults ==
    [][(last'.op = "createTodo" /\ last'.outcome = "ok") => \A drift \in {0, 1} :
        CreateTask(Dto_valid, drift) =>
            LET created == FromDatabase(todos'[Len(todos')])
            IN  /\ Len(todos') = Len(todos) + 1
                /\ created.title = Str_abc
                /\ created.completed = FALSE
                /\ created.priority = "medium"
                /\ created.tags = <<>>
                /\ created.completedAt = UNDEF
                /\ created.id \notin RowIds(todos)
                /\ created.createdAt = created.updatedAt]_vars

\* what the specification requires of a title: between TitleMin and TitleMax characters
\* once trimmed, all of them of the allowed class
TitleAllowed(title) ==
    /\ Len(Trim(title)) >= TitleMin
    /\ Len(Trim(title)) <= TitleMax
    /\ TitleRegexTest(title)

\* C22: after any sequence of createTodo, bulkCreate and updateTodo calls on the service,
\* every persisted task's title has a trimmed length between 3 and 100 and only allowed
\* characters; and an input whose title violates this is rejected with a validation
\* error and nothing is persisted.
C22_PersistedTitlesAllowed ==
    /\ [](\A i \in 1..Len(todos) : TitleAllowed(todos[i].title))
    /\ [][/\ \A dto \in TaskDtos, drift \in {0, 1} :
              (CreateTask(dto, drift) /\ ~TitleAllowed(dto.title[1]))
                  => (last'.outcome = "validation" /\ todos' = todos)
          /\ \A batch \in TaskBatches :
              (BulkCreate(batch, 0)
                   /\ \E k \in 1..Len(batch) : ~TitleAllowed(batch[k].title[1]))
                  => (last'.outcome = "validation" /\ todos' = todos)
          /\ \A id \in Ids, dto \in TaskUpdates :
              (UpdateTodo(id, dto) /\ dto.title # UNDEF /\ ~TitleAllowed(dto.title[1]))
                  => (last'.outcome = "validation" /\ todos' = todos)]_vars

\* C23: every create input that validateCreateTodoDto accepts, whatever optional fields
\* it has (a valid dueDate, a description of up to 500 characters), becomes through
\* Todo.create and toDatabase a row that satisfies every CHECK constraint of the table,
\* so createTodo of a validated input never ends in a storage failure.
C23_ValidatedInputSatisfiesChecks ==
    [][\A dto \in TaskDtos, drift \in {0, 1} :
           (CreateTask(dto, drift) /\ validateCreateTodoDto(dto) = "")
               => /\ CheckConstraints(ToDatabase(TodoCreateAt(dto, now, now', nextId + 1)))
                  /\ last'.outcome = "ok"
                  /\ Len(todos') = Len(todos) + 1]_vars

\* C25: after every successful updateTodo, whichever fields were supplied, the updated_at
\* stored for the task once the update trigger has run is not earlier than the value
\* stored before the call and not earlier than the task's created_at.
C25_UpdatedAtAdvances ==
    [][(last'.op = "updateTodo" /\ last'.outcome = "ok")
           => \A dto \in TaskUpdates :
                  UpdateTodo(last'.input[1], dto)
                      => LET i == RowIndex(todos, last'.input[1])
                         IN  /\ NewDate(todos'[i].updated_at) >= NewDate(todos[i].updated_at)
                             /\ NewDate(todos'[i].updated_at) >= NewDate(todos'[i].created_at)]_vars

\* C24: a successful updateTodo(id, fields) changes, on the task with that id, only the
\* supplied fields, updated_at, and completed_at when completed actually changes; id and
\* created_at never change, the fields not supplied keep their values, and every other
\* task of the collection is unchanged.
C24_UpdateChangesOnlySupplied ==
    [][(last'.op = "updateTodo" /\ last'.outcome = "ok")
           => \A dto \in UpdateDtos :
                  (BodyAccepted(dto) /\ UpdateTodo(last'.input[1], dto))
                      => LET i == RowIndex(todos, last'.input[1])
                             old == todos[i]
                             new == todos'[i]
                             flips == /\ dto.completed # UNDEF
                                      /\ dto.completed[1] # (old.completed = 1)
                         IN  /\ Len(todos') = Len(todos)
                             /\ \A j \in 1..Len(todos) : j # i => todos'[j] = todos[j]
                             /\ new.id = old.id
                             /\ new.created_at = old.created_at
                             /\ (dto.title = UNDEF) => (new.title = old.title)
                             /\ (dto.description = UNDEF) => (new.description = old.description)
                             /\ (dto.priority = UNDEF) => (new.priority = old.priority)
                             /\ (dto.dueDate = UNDEF) => (new.due_date = old.due_date)
                             /\ (dto.tags = UNDEF) => (new.tags = old.tags)
                             /\ (dto.completed = UNDEF) => (new.completed = old.completed)
                             /\ (~flips) => (new.completed_at = old.completed_at)]_vars

\* an update of completed alone has succeeded on a high-priority task with a tag, another
\* task being in the collection
C24_Witness ==
    /\ last.op = "updateTodo"
    /\ last.outcome = "ok"
    /\ Len(todos) = 2
    /\ \E i \in 1..Len(todos) :
           /\ todos[i].id = last.input[1]
           /\ todos[i].priority = "high"
           /\ todos[i].title = Str_Buy
           /\ todos[i].tags # JSONStringify(<<>>)
           /\ todos[i].updated_at.fmt = "sql"

\* C26: completionRate is 0 when total = 0 and otherwise the integer nearest to
\* 100 * completed / total, a half rounded up; it always lies in 0..100; and it is 100
\* exactly when total > 0 and every task is completed.
C26_CompletionRateRoundsHalfUp ==
    last.op = "completionRate"
        => /\ last.rate = IF last.total = 0 THEN 0
                          ELSE (200 * last.completed + last.total) \div (2 * last.total)
           /\ last.rate \in 0..100
           /\ (last.rate = 100) <=> (last.total > 0 /\ last.completed = last.total)

\* C27: every result of getStats has byPriority with the three keys low, medium and high,
\* each the number of persisted tasks of that priority (0 when there is none), and
\* low + medium + high = total; the counts are over the whole collection.
C27_ByPriorityCountsAll ==
    [][StatsActive
           => LET s == last'.stats
              IN  /\ DOMAIN s.byPriority = {"low", "medium", "high"}
                  /\ \A p \in {"low", "medium", "high"} :
                         s.byPriority[p]
                             = Cardinality({i \in 1..Len(todos) : todos[i].priority = p})
                  /\ s.byPriority["low"] + s.byPriority["medium"] + s.byPriority["high"]
                         = s.total]_vars

\* C28: complete() on a completed task and uncomplete() on an active one change no
\* field, completedAt and updatedAt included, so that a second call in a row leaves what
\* the first gave; toggle() always changes completed, and a second toggle() in a row
\* gives back the completed value from before the first, completedAt being set exactly
\* when the task is completed.
C28_CompleteIdempotentToggleInvolutive ==
    [][/\ ((Complete /\ (req.todo.completed \/ req.call = "complete"))
              => (req'.todo = req.todo))
       /\ ((Uncomplete /\ (~req.todo.completed \/ req.call = "uncomplete"))
              => (req'.todo = req.todo))
       /\ (Toggle => (/\ req'.todo.completed # req.todo.completed
                      /\ req'.todo.completed <=> (req'.todo.completedAt # UNDEF)))
       /\ ((Toggle /\ req.call = "toggle")
              => (req'.todo.completed = req.before.completed))]_vars

\* complete() has been called twice in a row, the second time after the clock had moved
\* on from the completion
C28_Witness ==
    /\ req.op = "entity"
    /\ req.call = "complete"
    /\ req.prev = "complete"
    /\ req.todo.completed
    /\ req.todo.completedAt # UNDEF
    /\ req.todo.completedAt[1] < now

\* the fields that an update body supplies
Supplied(dto) ==
    {f \in {"title", "description", "completed", "priority", "dueDate", "tags"} :
        dto[f] # UNDEF}

\* the stored row has the value of every field that the body supplied
TakesEffect(row, dto) ==
    /\ (dto.title # UNDEF) => (row.title = dto.title[1])
    /\ (dto.priority # UNDEF) => (row.priority = dto.priority[1])
    /\ (dto.completed # UNDEF) => ((row.completed = 1) = dto.completed[1])

\* C29: two updateTodo calls on the same task that supply disjoint fields, interleaved
\* at any await, both take effect: once both are over, the stored task has the new value
\* of every field supplied by either; and an updateTodo interleaved with a deleteTodo of
\* the same id ends with the update applied or a not-found error, no other error.
C29_ConcurrentUpdatesAndDelete ==
    (/\ req.op = "race"
     /\ req.calls[1].pc = "done"
     /\ req.calls[2].pc = "done"
     /\ req.calls[1].id = req.calls[2].id)
        => /\ (/\ req.calls[2].kind = "update"
               /\ req.calls[1].id \in RowIds(todos)
               /\ Supplied(req.calls[1].dto) \cap Supplied(req.calls[2].dto) = {})
                  => (/\ req.calls[1].outcome = "ok"
                      /\ req.calls[2].outcome = "ok"
                      /\ TakesEffect(todos[RowIndex(todos, req.calls[1].id)],
                                     req.calls[1].dto)
                      /\ TakesEffect(todos[RowIndex(todos, req.calls[1].id)],
                                     req.calls[2].dto))
           /\ (req.calls[2].kind = "delete")
                  => (req.calls[1].outcome \in {"ok", "not_found"})

\* C30: in useTodosWithFilters, after any sequence of parameter changes and once every
\* loadTodos request in flight has completed, in whatever order the responses came, the
\* todos and meta displayed are those of the response to the parameters issued last (the
\* request for them having been answered), and loading is false.
C30_DisplayedIsLatestResponse ==
    (req.op = "hook" /\ req.mounted /\ req.inflight = {} /\ req.latestOk)
        => /\ req.data = getAllTodos(todos, buildParams(req)).data
           /\ req.meta = Some(getAllTodos(todos, buildParams(req)).meta)
           /\ req.loading = FALSE
====
